---- MODULE Spec2Model ----
(***************************************************************************)
(* A model of aioftp-s3 (src/aioftps3.py): the fair reader-writer lock     *)
(* _ReadWriteLock, the multi-path lock _PathLock, the S3PathIO facade      *)
(* operations over an S3 bucket, and the multipart write session           *)
(* _open_wb.                                                               *)
(*                                                                         *)
(* Tasks run on one asyncio event loop: code between two suspending awaits *)
(* is atomic, so every action below is the code of one task from one       *)
(* suspension point to the next.                                           *)
(***************************************************************************)
EXTENDS Naturals, Sequences, FiniteSets, TLC

\* ------------------------------------------------------------------------
\* Bounds of the model

\* tasks that use one _ReadWriteLock directly (SpecLock)
NumAcquirers == 3

\* cap of _reads_held: a reader that was granted is cancelled before it resumes
\* only while _reads_held is below the cap (each such cancellation leaves the
\* counter one higher for good)
MaxReadsHeld == 4

\* cap of the length of _waiters: cancelled waiters stay queued until they
\* reach the head, so tasks that queue and are cancelled again and again
\* behind a holder make the queue grow without limit
MaxQueue == 3

\* tasks that call lock(write_to, read_from) of one _PathLock (SpecCalls)
NumLockCallers == 2

\* tasks that run facade operations on one bucket (SpecFacade)
NumOps == 2

\* tasks that run a write session, and the write() calls of a session
NumUploads == 1

MaxWrites == 5

\* tasks that write to one and the same path
NumWriters == 2

\* tasks that run read-only operations, next to NumOps tasks that mutate
NumReaders == 1

\* the most paths of a listing that is_dir and is_file are asked of
MaxListed == 3

\* the most parameters of the query of a request
MaxQuery == 3

Max(S) == CHOOSE x \in S : \A y \in S : y <= x

Callers == 1..Max({NumAcquirers, NumLockCallers, NumOps + NumReaders, NumWriters})

\* ------------------------------------------------------------------------
\* Paths.  A path is the sequence of its components, a component is the
\* sequence of its character codes; PurePosixPath('.') is the empty sequence.

S3_DIR_SUFFIX == 47

Root == <<>>

\* the paths of the model: ".", "a", "a/b", "a/c"
Paths == {Root, <<(<<97>>)>>, <<(<<97>>), (<<98>>)>>, <<(<<97>>), (<<99>>)>>}

\* PurePosixPath.parents
parents(path) == {SubSeq(path, 1, k) : k \in 0..(Len(path) - 1)}

\* PurePosixPath.as_posix: the components joined by "/", "." for the root
RECURSIVE as_posix(_)
as_posix(path) ==
    IF path = Root THEN <<46>>
    ELSE IF Len(path) = 1 THEN path[1]
    ELSE as_posix(SubSeq(path, 1, Len(path) - 1)) \o <<S3_DIR_SUFFIX>> \o path[Len(path)]

\* str < str in Python: by code point, a proper prefix first
RECURSIVE StrLess(_, _)
StrLess(s, t) ==
    IF t = <<>> THEN FALSE
    ELSE IF s = <<>> THEN TRUE
    ELSE IF Head(s) /= Head(t) THEN Head(s) < Head(t)
    ELSE StrLess(Tail(s), Tail(t))

VARIABLES
    locks,   \* _PathLock._locks: path -> _ReadWriteLock (_waiters, _reads_held, _write_held)
    pc,      \* where each task is
    plan,    \* sorted_locks of the task's lock() call: sequence of [path, type]
    pos,     \* index in plan of the lock the task is entering
    ahead,   \* history: the earlier conflicting acquirers a task queued behind
    bucket,  \* the keys of the objects of the S3 bucket
    op,      \* the facade operation each task runs
    sess,    \* the write session (_open_wb) each task runs
    stored,  \* for the key of each object made by a completed upload, the task
             \* whose write session made it (0: an upload that is no session here)
    listed,  \* the S3Paths that the last list() of each task yielded
    signing  \* the query of the request being signed and, once signed, its
             \* canonical query string

lockVars == <<locks, pc, plan, pos, ahead>>

s3Vars == <<bucket, stored>>

appVars == <<bucket, op, sess, stored, listed, signing>>

vars == <<locks, pc, plan, pos, ahead, bucket, op, sess, stored, listed, signing>>

\* ------------------------------------------------------------------------
\* _ReadWriteLock

\* the element of a one-element set; {e : x \in {v}} gives the value v the name x
Only(S) == CHOOSE x \in S : TRUE

\* no request is being signed
NoSigning == [query |-> <<>>, signed |-> FALSE, canonical_querystring |-> <<>>]

\* a task that runs no facade operation
NoOp == [kind |-> "none", path |-> Root, at |-> "none", seen |-> {}, todo |-> <<>>]

\* _open_wb before start(), for a task that runs no write session.  sent is
\* history: the <Part> lists of the CompleteMultipartUpload requests sent.
NoSession ==
    [at |-> "none", path |-> Root, part_uploads |-> <<>>, part_length |-> 0,
     part_chunks |-> <<>>, accepted |-> 0, chunk |-> 0, exc |-> FALSE,
     indexes_and_etags |-> <<>>, sent |-> <<>>, lens |-> <<>>]

\* __init__
LockInit == [waiters |-> <<>>, reads_held |-> 0, write_held |-> FALSE]

\* a waiter future in _waiters: the task that awaits it, its class
\* (_ReadWaiter / _WriteWaiter) and whether the future is cancelled
Waiter(c, t) == [id |-> c, type |-> t, cancelled |-> FALSE]

\* mutant: the generator passes over live waiters of the other type instead of
\* stopping at them
RECURSIVE PopSkippingOthers(_, _, _)
PopSkippingOthers(waiters, waiter_type, max) ==
    IF max = 0 \/ waiters = <<>>
    THEN [yielded |-> <<>>, waiters |-> waiters]
    ELSE LET rest == PopSkippingOthers(Tail(waiters), waiter_type,
                         IF Head(waiters).type = waiter_type /\ ~Head(waiters).cancelled
                         THEN max - 1 ELSE max)
         IN  IF Head(waiters).cancelled THEN rest
             ELSE IF Head(waiters).type = waiter_type
             THEN [rest EXCEPT !.yielded = <<Head(waiters)>> \o @]
             ELSE [rest EXCEPT !.waiters = <<Head(waiters)>> \o @]

\* _pop_queued_waiters(waiter_type), consumed until the generator ends or the
\* consumer has taken max waiters and breaks.  The generator pops the head
\* while it has the right type or is cancelled and yields the popped waiters
\* that have the right type and are not cancelled.
RECURSIVE _pop_queued_waiters(_, _, _)
_pop_queued_waiters(waiters, waiter_type, max) ==
    IF max = 0
    THEN [yielded |-> <<>>, waiters |-> waiters]
    ELSE LET correct_type == waiters /= <<>> /\ Head(waiters).type = waiter_type
             cancelled == waiters /= <<>> /\ Head(waiters).cancelled
         IN  IF ~correct_type /\ ~cancelled
             THEN [yielded |-> <<>>, waiters |-> waiters]
             ELSE IF correct_type /\ ~cancelled
             THEN Only({[yielded |-> <<Head(waiters)>> \o rest.yielded,
                         waiters |-> rest.waiters]
                        : rest \in {_pop_queued_waiters(Tail(waiters), waiter_type, max - 1)}})
             ELSE _pop_queued_waiters(Tail(waiters), waiter_type, max)

\* the condition of the first if of _resolve_queued_waiters
ReadGrantAllowed(lock) == ~lock.write_held

\* mutant: a writer is granted while readers hold the lock
WriteGrantIgnoringReaders(lock) == ~lock.write_held

\* the condition of the second if of _resolve_queued_waiters
WriteGrantAllowed(lock) == ~lock.write_held /\ lock.reads_held = 0

\* the tasks of a sequence of waiters
Ids(waiters) == {waiters[i].id : i \in DOMAIN waiters}

\* the first if of _resolve_queued_waiters: the lock afterwards and the tasks
\* whose waiter got its result
ResolveReads(lock) ==
    IF ReadGrantAllowed(lock)
    THEN Only({[lock |-> [lock EXCEPT !.waiters = r.waiters,
                                      !.reads_held = @ + Len(r.yielded)],
                granted |-> Ids(r.yielded)]
               : r \in {_pop_queued_waiters(lock.waiters, "read", Len(lock.waiters))}})
    ELSE [lock |-> lock, granted |-> {}]

\* the second if of _resolve_queued_waiters, after the first left st
ResolveWrites(st) ==
    IF WriteGrantAllowed(st.lock)
    THEN Only({[lock |-> [st.lock EXCEPT !.waiters = w.waiters,
                                         !.write_held = w.yielded /= <<>>],
                granted |-> st.granted \cup Ids(w.yielded)]
               : w \in {_pop_queued_waiters(st.lock.waiters, "write", 1)}})
    ELSE st

\* _resolve_queued_waiters: the lock afterwards and the tasks whose waiter got
\* its result
_resolve_queued_waiters(lock) ==
    Only({Only({ResolveWrites(st) : st \in {ResolveReads(lk)}}) : lk \in {lock}})

\* _on_read_release / _on_write_release
_on_release(lock, t) ==
    IF t = "read" THEN [lock EXCEPT !.reads_held = @ - 1]
                  ELSE [lock EXCEPT !.write_held = FALSE]

\* ------------------------------------------------------------------------
\* _PathLock

\* _sort_key of a (path, lock, locker) entry
_sort_key(path_lock) == <<Cardinality(parents(path_lock.path)), as_posix(path_lock.path)>>

\* tuple < tuple in Python, for two sort keys
KeyLess(k1, k2) == k1[1] < k2[1] \/ (k1[1] = k2[1] /\ StrLess(k1[2], k2[2]))

\* mutant: no sort, the readable entries come before the writable ones
RECURSIVE ReadsThenWrites(_)
ReadsThenWrites(entries) ==
    IF entries = {} THEN <<>>
    ELSE LET first == CHOOSE e \in entries :
                          \A f \in entries \ {e} :
                              \/ e.type = "read" /\ f.type = "write"
                              \/ e.type = f.type /\ KeyLess(_sort_key(e), _sort_key(f))
         IN  <<first>> \o ReadsThenWrites(entries \ {first})

\* sorted(entries, key=_sort_key) for entries of distinct paths
RECURSIVE SortedLocks(_)
SortedLocks(entries) ==
    IF entries = {} THEN <<>>
    ELSE LET first == CHOOSE e \in entries :
                          \A f \in entries \ {e} : KeyLess(_sort_key(e), _sort_key(f))
         IN  <<first>> \o SortedLocks(entries \ {first})

\* the elements of a list, as set() gives them
Elems(list) == {list[i] : i \in DOMAIN list}

\* mutant: the ancestors of the paths are not locked
LockEntriesNoAncestors(write_to, read_from) ==
    {[path |-> p, type |-> "write"] : p \in Elems(write_to)}
    \cup {[path |-> p, type |-> "read"] : p \in Elems(read_from) \ Elems(write_to)}

\* mutant: the ancestors of the paths are locked for writing
LockEntriesAncestorsWritten(write_to, read_from) ==
    {[path |-> p, type |-> "write"] :
        p \in Elems(write_to) \cup UNION {parents(q) : q \in Elems(write_to) \cup Elems(read_from)}}
    \cup {[path |-> p, type |-> "read"] :
        p \in Elems(read_from)
               \ (Elems(write_to) \cup UNION {parents(q) : q \in Elems(write_to) \cup Elems(read_from)})}

\* __call__ up to the sort: the (path, locker) entries of a lock() call
\* mutant: only the ancestors are read-locked, not the paths of read_from
LockEntriesWithoutReadFrom(write_to, read_from) ==
    LET writable_paths == Elems(write_to)
        ancestor_paths == UNION {parents(p) : p \in Elems(write_to) \cup Elems(read_from)}
        readable_paths == ancestor_paths \ writable_paths
    IN  {[path |-> p, type |-> "write"] : p \in writable_paths}
        \cup {[path |-> p, type |-> "read"] : p \in readable_paths}

LockEntries(write_to, read_from) ==
    LET writable_paths == Elems(write_to)
        ancestor_paths == UNION {parents(p) : p \in Elems(write_to) \cup Elems(read_from)}
        readable_paths == (ancestor_paths \cup Elems(read_from)) \ writable_paths
    IN  {[path |-> p, type |-> "write"] : p \in writable_paths}
        \cup {[path |-> p, type |-> "read"] : p \in readable_paths}

\* sorted_locks of __call__
sorted_locks(write_to, read_from) == SortedLocks(LockEntries(write_to, read_from))

\* The for loop of __call__ from entry k of pl, run by task c until an await
\* suspends it: _acquire appends a waiter and resolves the queue; awaiting a
\* future that is already done does not suspend, so the loop goes on.
RECURSIVE EnterLocks(_, _, _, _)
EnterLocks(lks, c, pl, k) ==
    IF k > Len(pl)
    THEN [locks |-> lks, pos |-> k, granted |-> {}, blocked |-> FALSE]
    ELSE Only({
           IF c \in res.granted
           THEN Only({[rest EXCEPT !.granted = @ \cup (res.granted \ {c})]
                      : rest \in {EnterLocks([lks EXCEPT ![pl[k].path] = res.lock],
                                             c, pl, k + 1)}})
           ELSE [locks |-> [lks EXCEPT ![pl[k].path] = res.lock], pos |-> k,
                 granted |-> res.granted, blocked |-> TRUE]
           : res \in {_resolve_queued_waiters(
                          [lks[pl[k].path] EXCEPT
                              !.waiters = Append(@, Waiter(c, pl[k].type))])}})

\* AsyncExitStack.__aexit__: the finally of _acquire for entries k, k-1, .. 1
RECURSIVE ExitLocks(_, _, _)
ExitLocks(lks, pl, k) ==
    IF k = 0
    THEN [locks |-> lks, granted |-> {}]
    ELSE Only({
           Only({[rest EXCEPT !.granted = @ \cup res.granted]
                 : rest \in {ExitLocks([lks EXCEPT ![pl[k].path] = res.lock], pl, k - 1)}})
           : res \in {_resolve_queued_waiters(_on_release(lks[pl[k].path], pl[k].type))}})

\* Future.cancel() of the waiter of task c, wherever it is queued
CancelWaiter(lock, c) ==
    [lock EXCEPT !.waiters =
        [i \in DOMAIN @ |-> IF @[i].id = c THEN [@[i] EXCEPT !.cancelled = TRUE] ELSE @[i]]]

\* set_result on the waiters of the tasks in granted: each is woken later
Wake(pcs, granted) == [j \in Callers |-> IF j \in granted THEN "granted" ELSE pcs[j]]

\* history: task c no longer counts as an earlier acquirer
Forget(c) == [j \in Callers |-> ahead[j] \ {c}]

\* ------------------------------------------------------------------------
\* Actions shared by every user of the locks

\* a task whose waiter got its result resumes from await waiter and goes on
\* entering the rest of its locks
Resume(c) ==
    /\ pc[c] = "granted"
    /\ \E res \in {EnterLocks(locks, c, plan[c], pos[c] + 1)} :
           /\ locks' = res.locks
           /\ pos' = [pos EXCEPT ![c] = res.pos]
           /\ pc' = [Wake(pc, res.granted) EXCEPT
                        ![c] = IF res.blocked THEN "waiting" ELSE "scope"]
    /\ UNCHANGED <<plan, ahead, appVars>>

\* the scope of the task ends, normally or by an exception raised in the body
Exit(c) ==
    /\ pc[c] = "scope"
    /\ \E res \in {ExitLocks(locks, plan[c], Len(plan[c]))} :
           /\ locks' = res.locks
           /\ pc' = [Wake(pc, res.granted) EXCEPT ![c] = "idle"]
    /\ plan' = [plan EXCEPT ![c] = <<>>]
    /\ pos' = [pos EXCEPT ![c] = 0]
    /\ ahead' = [Forget(c) EXCEPT ![c] = {}]
    /\ UNCHANGED appVars

\* Task.cancel() while the task is suspended in await waiter: a pending waiter
\* is cancelled at once; a waiter that already has its result cannot be
\* cancelled and the task is marked to get CancelledError when it resumes
Cancel(c) ==
    /\ pc[c] \in {"waiting", "granted"}
    /\ pc[c] = "granted" => locks[plan[c][pos[c]].path].reads_held < MaxReadsHeld
    /\ locks' = IF pc[c] = "waiting"
                THEN [locks EXCEPT ![plan[c][pos[c]].path] = CancelWaiter(@, c)]
                ELSE locks
    /\ pc' = [pc EXCEPT ![c] = "cancelling"]
    /\ ahead' = Forget(c)
    /\ UNCHANGED <<plan, pos, appVars>>

\* mutant: the except clause of _acquire re-raises without resolving the queue
CancelResumeNoResolve(c) ==
    /\ pc[c] = "cancelling"
    /\ \E rest \in {ExitLocks(locks, plan[c], pos[c] - 1)} :
           /\ locks' = rest.locks
           /\ pc' = [Wake(pc, rest.granted) EXCEPT ![c] = "idle"]
    /\ plan' = [plan EXCEPT ![c] = <<>>]
    /\ pos' = [pos EXCEPT ![c] = 0]
    /\ ahead' = [Forget(c) EXCEPT ![c] = {}]
    /\ UNCHANGED appVars

\* the cancelled task resumes: the except clause of _acquire resolves the
\* queue and re-raises, and the exit stack leaves the locks entered so far
CancelResume(c) ==
    /\ pc[c] = "cancelling"
    /\ \E res \in {_resolve_queued_waiters(locks[plan[c][pos[c]].path])} :
       \E rest \in {ExitLocks([locks EXCEPT ![plan[c][pos[c]].path] = res.lock],
                               plan[c], pos[c] - 1)} :
           /\ locks' = rest.locks
           /\ pc' = [Wake(pc, res.granted \cup rest.granted) EXCEPT ![c] = "idle"]
    /\ plan' = [plan EXCEPT ![c] = <<>>]
    /\ pos' = [pos EXCEPT ![c] = 0]
    /\ ahead' = [Forget(c) EXCEPT ![c] = {}]
    /\ UNCHANGED appVars

\* ------------------------------------------------------------------------
\* SpecLock: NumAcquirers tasks use one _ReadWriteLock (the lock of the root
\* path) through read() and write(), again and again, and may be cancelled

Acquirers == 1..NumAcquirers

\* the tasks with a claim on the lock that conflicts with a new type-t claim
Conflicting(c, t) ==
    {j \in Acquirers \ {c} :
        /\ pc[j] \in {"waiting", "granted", "scope"}
        /\ (t = "write" \/ plan[j][1].type = "write")}

\* async with lock.read() / lock.write(): _acquire up to await waiter
Acquire(c, t) ==
    /\ pc[c] = "idle"
    /\ Len(locks[Root].waiters) < MaxQueue
    /\ \E res \in {EnterLocks(locks, c, <<[path |-> Root, type |-> t]>>, 1)} :
           /\ plan' = [plan EXCEPT ![c] = <<[path |-> Root, type |-> t]>>]
           /\ locks' = res.locks
           /\ pos' = [pos EXCEPT ![c] = res.pos]
           /\ pc' = [Wake(pc, res.granted) EXCEPT
                        ![c] = IF res.blocked THEN "waiting" ELSE "scope"]
    /\ ahead' = [ahead EXCEPT ![c] = Conflicting(c, t)]
    /\ UNCHANGED appVars

InitLock ==
    /\ locks = [p \in Paths |-> LockInit]
    /\ pc = [c \in Callers |-> "idle"]
    /\ plan = [c \in Callers |-> <<>>]
    /\ pos = [c \in Callers |-> 0]
    /\ ahead = [c \in Callers |-> {}]
    /\ bucket = {}
    /\ stored = {}
    /\ listed = [c \in Callers |-> <<>>]
    /\ signing = NoSigning
    /\ op = [c \in Callers |-> NoOp]
    /\ sess = [c \in Callers |-> NoSession]

NextLock ==
    \E c \in Acquirers :
        \/ \E t \in {"read", "write"} : Acquire(c, t)
        \/ Resume(c)
        \/ Exit(c)
        \/ Cancel(c)
        \/ CancelResume(c)

SpecLock == InitLock /\ [][NextLock]_vars

\* The event loop runs every task that is ready, and every holder leaves its
\* scope; nothing obliges a task to acquire or to be cancelled.
FairSpecLock ==
    /\ SpecLock
    /\ \A c \in Acquirers :
           WF_vars(Resume(c)) /\ WF_vars(Exit(c)) /\ WF_vars(CancelResume(c))

\* the tasks inside the critical section of the lock, by type
Inside(t) == {c \in Acquirers : pc[c] = "scope" /\ plan[c][1].type = t}

\* ------------------------------------------------------------------------
\* SpecCalls: NumLockCallers tasks call lock(write_to, read_from) of one
\* _PathLock again and again, with an empty list or a list of one path for
\* write_to and for read_from (the facade passes [path] and [])

LockCallers == 1..NumLockCallers

\* the lists of paths a call passes
PathLists == {<<>>} \cup {<<p>> : p \in Paths}

\* the sorted_locks of all the calls lock(write_to, read_from) with such lists
CallPlans == {sorted_locks(write_to, read_from) : write_to \in PathLists, read_from \in PathLists}

\* async with lock(write_to, read_from), for lists that make pl the sorted_locks:
\* __call__ up to the first await that suspends
Call(c, pl) ==
    /\ pc[c] = "idle"
    /\ pl \in CallPlans
    /\ \E res \in {EnterLocks(locks, c, pl, 1)} :
           /\ plan' = [plan EXCEPT ![c] = pl]
           /\ locks' = res.locks
           /\ pos' = [pos EXCEPT ![c] = res.pos]
           /\ pc' = [Wake(pc, res.granted) EXCEPT
                        ![c] = IF res.blocked THEN "waiting" ELSE "scope"]
    /\ UNCHANGED <<ahead, appVars>>

NextCalls ==
    \E c \in LockCallers :
        \/ \E pl \in CallPlans : Call(c, pl)
        \/ Resume(c)
        \/ Exit(c)

SpecCalls == InitLock /\ [][NextCalls]_vars

\* SpecCancelCalls: the callers of lock(write_to=[p], read_from=[]), for a
\* directory and a child of it, can also be cancelled while they wait in the
\* call.
CancelTargets == {<<(<<97>>)>>, <<(<<97>>), (<<98>>)>>}

CancelPlans == {sorted_locks(<<p>>, <<>>) : p \in CancelTargets}

\* the call, while no queue it joins has MaxQueue waiters
CallWithin(c, pl) ==
    /\ \A i \in DOMAIN pl : Len(locks[pl[i].path].waiters) < MaxQueue
    /\ Call(c, pl)

NextCancelCalls ==
    \E c \in LockCallers :
        \/ \E pl \in CancelPlans : CallWithin(c, pl)
        \/ Resume(c)
        \/ Exit(c)
        \/ Cancel(c)
        \/ CancelResume(c)

SpecCancelCalls == InitLock /\ [][NextCancelCalls]_vars

\* The event loop runs every task that is ready and every caller that entered
\* its scope leaves it.
FairSpecCalls ==
    /\ SpecCalls
    /\ \A c \in LockCallers : WF_vars(Resume(c) \/ Exit(c))

\* ------------------------------------------------------------------------
\* The S3 bucket and the requests of the facade

\* the key of a path
Key(path) == as_posix(path)

\* the key of the marker object of the directory at a path
DirKey(path) == as_posix(path) \o <<S3_DIR_SUFFIX>>

\* PurePosixPath.parent
parent(path) == IF path = Root THEN Root ELSE SubSeq(path, 1, Len(path) - 1)

\* _file_exists: HEAD of the key answers 200
_file_exists(bkt, path) == Key(path) \in bkt

\* _dir_exists: HEAD of the key with the directory suffix answers 200
_dir_exists(bkt, path) == DirKey(path) \in bkt

\* str.startswith
StartsWith(s, prefix) ==
    Len(prefix) <= Len(s) /\ SubSeq(s, 1, Len(prefix)) = prefix

\* _list_descendant_keys: the keys under a prefix, listed without delimiter
_list_descendant_keys(bkt, key_prefix) == {k \in bkt : StartsWith(k, key_prefix)}

\* key.count('/')
CountSlash(k) == Cardinality({i \in DOMAIN k : k[i] = S3_DIR_SUFFIX})

\* mutant: the sort key that puts the outermost and shortest keys last, so
\* that they are deleted first
DeleteSortKeyOutermostFirst(k) == <<0 - CountSlash(k), 0 - Len(k), k>>

\* delete_sort_key of _rmdir
delete_sort_key(k) == <<CountSlash(k), Len(k), k>>

\* tuple < tuple in Python, for two delete sort keys
DeleteKeyLess(k1, k2) ==
    \/ k1[1] < k2[1]
    \/ k1[1] = k2[1] /\ k1[2] < k2[2]
    \/ k1[1] = k2[1] /\ k1[2] = k2[2] /\ StrLess(k1[3], k2[3])

\* sorted(keys, key=delete_sort_key, reverse=True)
RECURSIVE DeleteOrder(_)
DeleteOrder(keys) ==
    IF keys = {} THEN <<>>
    ELSE LET first == CHOOSE k \in keys :
                          \A j \in keys \ {k} :
                              DeleteKeyLess(delete_sort_key(j), delete_sort_key(k))
         IN  <<first>> \o DeleteOrder(keys \ {first})

\* ------------------------------------------------------------------------
\* SpecFacade: NumOps tasks run mkdir, rmdir, unlink and the end() of write
\* sessions on the paths, again and again, on a bucket that starts empty.  Every S3 request is one step: S3 acts and answers, and the
\* task runs on to its next request or out of its lock scope.  The paths are
\* plain paths (a path that carries a Stat makes every one of these operations
\* fail at its first check, before any request).

OpTasks == 1..NumOps

Targets == Paths

\* mutant: the operations take the lock of their path for reading
OpLocksForReading(path) == sorted_locks(<<>>, <<path>>)

\* the lock() call of mkdir, rmdir, unlink and end(): lock(write_to=[path], read_from=[])
OpLocks(path) == sorted_locks(<<path>>, <<>>)

\* the path whose existence an operation checks: its own path, or for the
\* end() of a write session the parent of its path
Subject(o) == IF o.kind = "wb" THEN parent(o.path) ELSE o.path

\* The first request of an operation after it entered its lock scope, or
\* "raise" when it fails before any request.  _is_file and _is_dir send no
\* request for the root path: the root is a directory and no file.
FirstStage(kind, path) ==
    CASE kind = "mkdir"  -> IF path = Root THEN "raise" ELSE "is_file"
      [] kind = "rmdir"  -> IF path = Root THEN "list" ELSE "is_file"
      [] kind = "unlink" -> IF path = Root THEN "raise" ELSE "is_dir"
      [] kind = "wb"     -> IF parent(path) = Root THEN "complete" ELSE "is_file"

\* mutant: mkdir does not test whether the directory exists
AfterCheckNoDirTest(kind, at, found) ==
    CASE kind = "mkdir"  /\ at = "is_file" -> IF found THEN "raise" ELSE "is_dir"
      [] kind = "mkdir"  /\ at = "is_dir"  -> "put"
      [] kind = "rmdir"  /\ at = "is_file" -> IF found THEN "raise" ELSE "is_dir"
      [] kind = "rmdir"  /\ at = "is_dir"  -> IF found THEN "list" ELSE "raise"
      [] kind = "unlink" /\ at = "is_dir"  -> IF found THEN "raise" ELSE "is_file"
      [] kind = "unlink" /\ at = "is_file" -> IF found THEN "delete" ELSE "raise"
      [] kind = "wb"     /\ at = "is_file" -> IF found THEN "raise" ELSE "is_dir"
      [] kind = "wb"     /\ at = "is_dir"  -> IF found THEN "complete" ELSE "raise"

\* Where an operation goes when the HEAD of stage at found the key or not:
\* the next request, or "raise" when the check fails.
AfterCheck(kind, at, found) ==
    CASE kind = "mkdir"  /\ at = "is_file" -> IF found THEN "raise" ELSE "is_dir"
      [] kind = "mkdir"  /\ at = "is_dir"  -> IF found THEN "raise" ELSE "put"
      [] kind = "rmdir"  /\ at = "is_file" -> IF found THEN "raise" ELSE "is_dir"
      [] kind = "rmdir"  /\ at = "is_dir"  -> IF found THEN "list" ELSE "raise"
      [] kind = "unlink" /\ at = "is_dir"  -> IF found THEN "raise" ELSE "is_file"
      [] kind = "unlink" /\ at = "is_file" -> IF found THEN "delete" ELSE "raise"
      [] kind = "wb"     /\ at = "is_file" -> IF found THEN "raise" ELSE "is_dir"
      [] kind = "wb"     /\ at = "is_dir"  -> IF found THEN "complete" ELSE "raise"

\* end() of a write session is left, by its last line or by an exception
SessionLeft(s) == IF s.at = "end" THEN [s EXCEPT !.at = "over"] ELSE s

\* _multipart_upload_complete of a write session sends its request: one <Part>
\* for each (part_number, part_etag) of the list, in the order of the list
CompleteSent(s) ==
    IF s.at = "end" THEN [s EXCEPT !.sent = Append(@, s.indexes_and_etags)] ELSE s

\* the task leaves its lock scope and its operation is over; s is what
\* becomes of its write session
LeaveWith(c, s) ==
    /\ \E res \in {ExitLocks(locks, plan[c], Len(plan[c]))} :
           /\ locks' = res.locks
           /\ pc' = [Wake(pc, res.granted) EXCEPT ![c] = "idle"]
    /\ plan' = [plan EXCEPT ![c] = <<>>]
    /\ pos' = [pos EXCEPT ![c] = 0]
    /\ op' = [op EXCEPT ![c] = NoOp]
    /\ sess' = [sess EXCEPT ![c] = s]
    /\ UNCHANGED <<ahead, listed, signing>>

Leave(c) == LeaveWith(c, SessionLeft(sess[c]))

\* the task stays in its lock scope and sends the request of stage at
Goto(c, at, seen, todo) ==
    /\ op' = [op EXCEPT ![c].at = at, ![c].seen = seen, ![c].todo = todo]
    /\ UNCHANGED <<lockVars, sess, listed, signing>>

\* Task c, whose lock() call has the entries pl and runs operation o, got
\* the result res of entering its locks: it waits, or it is in its scope and
\* sends its first request, or its first check raises with no request and it
\* leaves the scope in the same step.
ScopeEntered(c, pl, o, res) ==
    IF ~res.blocked /\ o.at = "raise"
    THEN \E out \in {ExitLocks(res.locks, pl, Len(pl))} :
             /\ locks' = out.locks
             /\ pc' = [Wake(pc, res.granted \cup out.granted) EXCEPT ![c] = "idle"]
             /\ plan' = [plan EXCEPT ![c] = <<>>]
             /\ pos' = [pos EXCEPT ![c] = 0]
             /\ op' = [op EXCEPT ![c] = NoOp]
    ELSE /\ locks' = res.locks
         /\ pc' = [Wake(pc, res.granted) EXCEPT
                      ![c] = IF res.blocked THEN "waiting" ELSE "scope"]
         /\ plan' = [plan EXCEPT ![c] = pl]
         /\ pos' = [pos EXCEPT ![c] = res.pos]
         /\ op' = [op EXCEPT ![c] = o]

\* mkdir, rmdir, unlink, or the end() of a write session whose part uploads
\* have finished: async with self.lock(write_to=[path], read_from=[])
Begin(c, kind, path) ==
    /\ pc[c] = "idle"
    /\ \E pl \in {OpLocks(path)} :
       \E res \in {EnterLocks(locks, c, pl, 1)} :
           ScopeEntered(c, pl, [kind |-> kind, path |-> path,
                                at |-> FirstStage(kind, path),
                                seen |-> {}, todo |-> <<>>], res)
    /\ UNCHANGED <<ahead, s3Vars, sess, listed, signing>>

\* the HEAD of _is_file (_file_exists) or _is_dir (_dir_exists) is answered
Check(c) ==
    /\ pc[c] = "scope"
    /\ op[c].at \in {"is_file", "is_dir"}
    /\ \E k \in {IF op[c].at = "is_file" THEN Key(Subject(op[c]))
                                          ELSE DirKey(Subject(op[c]))} :
       \E found \in {k \in bucket} :
       \E next \in {AfterCheck(op[c].kind, op[c].at, found)} :
           IF next = "raise"
           THEN Leave(c)
           ELSE Goto(c, next, op[c].seen \cup {<<k, found>>}, <<>>)
    /\ UNCHANGED s3Vars

\* _mkdir: the PUT of the marker is answered; a failure raises
Put(c, ok) ==
    /\ pc[c] = "scope"
    /\ op[c].at = "put"
    /\ bucket' = IF ok THEN bucket \cup {DirKey(op[c].path)} ELSE bucket
    /\ UNCHANGED stored
    /\ Leave(c)

\* _rmdir: the listing of the keys under the prefix is answered
List(c) ==
    /\ pc[c] = "scope"
    /\ op[c].at = "list"
    /\ \E todo \in {DeleteOrder(_list_descendant_keys(bucket, DirKey(op[c].path)))} :
           IF todo = <<>>
           THEN Leave(c)
           ELSE Goto(c, "delete", op[c].seen, todo)
    /\ UNCHANGED s3Vars

\* _rmdir, _unlink: the DELETE of a key is answered; a failure raises
Delete(c, ok) ==
    /\ pc[c] = "scope"
    /\ op[c].at = "delete"
    /\ \E k \in {IF op[c].kind = "unlink" THEN Key(op[c].path) ELSE Head(op[c].todo)} :
           /\ bucket' = IF ok THEN bucket \ {k} ELSE bucket
           /\ stored' = IF ok THEN {e \in stored : e[1] /= k} ELSE stored
           /\ IF ok /\ op[c].kind = "rmdir" /\ Len(op[c].todo) > 1
              THEN Goto(c, "delete", op[c].seen, Tail(op[c].todo))
              ELSE Leave(c)

\* _multipart_upload_complete: the POST is answered; a failure raises
Complete(c, ok) ==
    /\ pc[c] = "scope"
    /\ op[c].at = "complete"
    /\ bucket' = IF ok THEN bucket \cup {Key(op[c].path)} ELSE bucket
    /\ stored' = IF ok
                 THEN {e \in stored : e[1] /= Key(op[c].path)}
                          \cup {<<Key(op[c].path), IF sess[c].at = "end" THEN c ELSE 0>>}
                 ELSE stored
    /\ LeaveWith(c, SessionLeft(CompleteSent(sess[c])))

\* a task that waited for a lock of its operation resumes from await waiter
\* and goes on entering the rest of its locks
ResumeOp(c) ==
    /\ pc[c] = "granted"
    /\ op[c].kind /= "none"
    /\ \E res \in {EnterLocks(locks, c, plan[c], pos[c] + 1)} :
           ScopeEntered(c, plan[c], op[c], res)
    /\ UNCHANGED <<ahead, s3Vars, sess, listed, signing>>

NextFacade ==
    \E c \in OpTasks :
        \/ \E kind \in {"mkdir", "rmdir", "unlink", "wb"}, path \in Targets :
               Begin(c, kind, path)
        \/ ResumeOp(c)
        \/ Check(c)
        \/ \E ok \in BOOLEAN : Put(c, ok)
        \/ List(c)
        \/ \E ok \in BOOLEAN : Delete(c, ok)
        \/ \E ok \in BOOLEAN : Complete(c, ok)

SpecFacade == InitLock /\ [][NextFacade]_vars

\* ------------------------------------------------------------------------
\* Listing: the GET of _list_keys with the delimiter '/', S3's answer, and
\* the S3Paths that _list_immediate_child_paths makes of it

REG_MODE == 4534

DIR_MODE == 16895

\* a & b of two non-negative integers
RECURSIVE BitAnd(_, _)
BitAnd(a, b) ==
    IF a = 0 \/ b = 0 THEN 0
    ELSE (a % 2) * (b % 2) + 2 * BitAnd(a \div 2, b \div 2)

\* int(text) of a text of decimal digits
RECURSIVE int(_)
int(text) ==
    IF text = <<>> THEN 0
    ELSE 10 * int(SubSeq(text, 1, Len(text) - 1)) + (text[Len(text)] - 48)

\* the components of a text split at '/', cur being the component begun
RECURSIVE Split(_, _)
Split(text, cur) ==
    IF text = <<>> THEN (IF cur = <<>> THEN <<>> ELSE <<cur>>)
    ELSE IF Head(text) = S3_DIR_SUFFIX
         THEN (IF cur = <<>> THEN <<>> ELSE <<cur>>) \o Split(Tail(text), <<>>)
         ELSE Split(Tail(text), Append(cur, Head(text)))

\* PurePosixPath(text) of a relative text: its components, without the
\* empty ones and the '.' ones
PurePosixPath(text) == SelectSeq(Split(text, <<>>), LAMBDA part : part /= <<46>>)

Stat(st_size, st_mtime, st_ctime, st_nlink, st_mode) ==
    [st_size |-> st_size, st_mtime |-> st_mtime, st_ctime |-> st_ctime,
     st_nlink |-> st_nlink, st_mode |-> st_mode]

S3Path(text, stat) == [path |-> PurePosixPath(text), stat |-> stat]

\* the key_prefix of _list
ListPrefixOf(path) == IF path = Root THEN <<>> ELSE as_posix(path) \o <<S3_DIR_SUFFIX>>

\* the position of the first '/' of a text, 0 if it has none
FirstSlash(text) ==
    IF \E i \in DOMAIN text : text[i] = S3_DIR_SUFFIX
    THEN CHOOSE i \in DOMAIN text :
             /\ text[i] = S3_DIR_SUFFIX
             /\ \A j \in 1..(i - 1) : text[j] /= S3_DIR_SUFFIX
    ELSE 0

AfterPrefix(key, key_prefix) == SubSeq(key, Len(key_prefix) + 1, Len(key))

\* S3's list of the keys under key_prefix with the delimiter '/': the keys
\* with no '/' after the prefix are Contents ...
ContentsKeys(bkt, key_prefix) ==
    {k \in bkt : StartsWith(k, key_prefix)
                 /\ FirstSlash(AfterPrefix(k, key_prefix)) = 0}

\* ... and the others are rolled up to their text up to that '/'
CommonPrefixes(bkt, key_prefix) ==
    {SubSeq(k, 1, Len(key_prefix) + FirstSlash(AfterPrefix(k, key_prefix))) :
        k \in {k \in bkt : StartsWith(k, key_prefix)
                           /\ FirstSlash(AfterPrefix(k, key_prefix)) /= 0}}

\* the texts of a set, ascending, as S3 lists them
RECURSIVE Ascending(_)
Ascending(texts) ==
    IF texts = {} THEN <<>>
    ELSE LET first == CHOOSE t \in texts : \A u \in texts \ {t} : StrLess(t, u)
         IN  <<first>> \o Ascending(texts \ {first})

\* the <LastModified> of an object, a time after the epoch: whole seconds and
\* microseconds
LastModifieds == {[seconds |-> 1, microsecond |-> 0],
                  [seconds |-> 2, microsecond |-> 500000]}

\* the <Size> of an object, a text of digits
Sizes == {<<48>>, <<49, 50>>}

\* the answers S3 can give to the GET of _list_keys
ListResponses(bkt, key_prefix) ==
    {[Contents |-> [i \in DOMAIN Ascending(ContentsKeys(bkt, key_prefix)) |->
                        [Key |-> Ascending(ContentsKeys(bkt, key_prefix))[i],
                         LastModified |-> meta[Ascending(ContentsKeys(bkt, key_prefix))[i]][1],
                         Size |-> meta[Ascending(ContentsKeys(bkt, key_prefix))[i]][2]]],
      CommonPrefixes |-> Ascending(CommonPrefixes(bkt, key_prefix))] :
        meta \in [ContentsKeys(bkt, key_prefix) -> LastModifieds \X Sizes]}

\* ListKey of a <Contents> element: int((last_modified_datetime - epoch)
\* .total_seconds()) and int(Size)
ListKey(element) ==
    [key |-> element.Key, last_modified |-> element.LastModified.seconds,
     size |-> int(element.Size)]

\* ListPrefix of a <CommonPrefixes> element: the prefix without its last '/'
ListPrefix(text) == [prefix |-> SubSeq(text, 1, Len(text) - 1)]

_parse_list_response(body) ==
    [keys |-> [i \in DOMAIN body.Contents |-> ListKey(body.Contents[i])],
     prefixes |-> [i \in DOMAIN body.CommonPrefixes |-> ListPrefix(body.CommonPrefixes[i])]]

FileChild(list_key) ==
    S3Path(list_key.key,
           Stat(list_key.size, list_key.last_modified, list_key.last_modified, 1, REG_MODE))

DirChild(list_prefix) == S3Path(list_prefix.prefix, Stat(0, 0, 0, 1, DIR_MODE))

RECURSIVE FileChildren(_)
FileChildren(list_keys) ==
    IF list_keys = <<>> THEN <<>>
    ELSE (IF Head(list_keys).key[Len(Head(list_keys).key)] /= S3_DIR_SUFFIX
          THEN <<FileChild(Head(list_keys))>> ELSE <<>>)
         \o FileChildren(Tail(list_keys))

_list_immediate_child_paths(parsed) ==
    FileChildren(parsed.keys)
    \o [i \in DOMAIN parsed.prefixes |-> DirChild(parsed.prefixes[i])]

\* ------------------------------------------------------------------------
\* The read-only operations of the facade: exists, is_dir, is_file, stat,
\* list and open(path, 'rb') with iter_by_block

ReadKinds == {"exists", "is_dir", "is_file", "stat", "list", "rb"}

\* The first request of a read-only operation, or "return" when it answers
\* with no request: stat gives path.stat, and _is_file and _is_dir know the
\* root.
ReadFirstStage(kind, path) ==
    CASE kind = "exists"  -> IF path = Root THEN "return" ELSE "is_file"
      [] kind = "is_dir"  -> IF path = Root THEN "return" ELSE "is_dir"
      [] kind = "is_file" -> IF path = Root THEN "return" ELSE "is_file"
      [] kind = "stat"    -> "return"
      [] kind = "list"    -> "list"
      [] kind = "rb"      -> "get"

\* mutant: a read-only operation takes the read lock of its path
ReadBeginLocking(c, kind, path) ==
    /\ pc[c] = "idle"
    /\ op[c].kind = "none"
    /\ \E pl \in {sorted_locks(<<>>, <<path>>)} :
       \E res \in {EnterLocks(locks, c, pl, 1)} :
           ScopeEntered(c, pl, [kind |-> kind, path |-> path,
                                at |-> ReadFirstStage(kind, path),
                                seen |-> {}, todo |-> <<>>], res)
    /\ UNCHANGED <<ahead, s3Vars, sess, listed, signing>>

\* a read-only operation is called and runs up to its first request, or to
\* its end if it has none
ReadBegin(c, kind, path) ==
    /\ pc[c] = "idle"
    /\ op[c].kind = "none"
    /\ op' = IF ReadFirstStage(kind, path) = "return"
             THEN op
             ELSE [op EXCEPT ![c] = [kind |-> kind, path |-> path,
                                     at |-> ReadFirstStage(kind, path),
                                     seen |-> {}, todo |-> <<>>]]
    /\ UNCHANGED <<lockVars, s3Vars, sess, listed, signing>>

\* The request of a read-only operation is answered: the HEAD of _file_exists
\* or _dir_exists, the GET of the listing or the GET of the object.  exists
\* goes on to _is_dir when _is_file found nothing; otherwise the operation
\* returns or raises; list yields the paths made of S3's answer.
ReadAnswer(c) ==
    /\ op[c].kind \in ReadKinds
    /\ op' = IF op[c].kind = "exists" /\ op[c].at = "is_file" /\ ~_file_exists(bucket, op[c].path)
             THEN [op EXCEPT ![c].at = "is_dir",
                             ![c].seen = @ \cup {<<Key(op[c].path), FALSE>>}]
             ELSE [op EXCEPT ![c] = NoOp]
    /\ IF op[c].kind = "list"
       THEN \E body \in ListResponses(bucket, ListPrefixOf(op[c].path)) :
                listed' = [listed EXCEPT ![c] =
                              _list_immediate_child_paths(_parse_list_response(body))]
       ELSE UNCHANGED listed
    /\ UNCHANGED <<lockVars, s3Vars, sess, signing>>

\* ------------------------------------------------------------------------
\* SpecReaders: NumOps tasks run mkdir and rmdir on a directory and a child of
\* it, and NumReaders tasks run the read-only operations on the root and the
\* directory, again and again.

ReaderTasks == (NumOps + 1)..(NumOps + NumReaders)

MutatedTargets == {<<(<<97>>)>>, <<(<<97>>), (<<98>>)>>}

ReadTargets == {Root, <<(<<97>>)>>}

NextReaders ==
    \/ \E c \in OpTasks :
           \/ \E kind \in {"mkdir", "rmdir"}, path \in MutatedTargets : Begin(c, kind, path)
           \/ ResumeOp(c)
           \/ Check(c)
           \/ \E ok \in BOOLEAN : Put(c, ok)
           \/ List(c)
           \/ \E ok \in BOOLEAN : Delete(c, ok)
    \/ \E c \in ReaderTasks :
           \/ \E kind \in ReadKinds, path \in ReadTargets : ReadBegin(c, kind, path)
           \/ ReadAnswer(c)

SpecReaders == InitLock /\ [][NextReaders]_vars

\* S3 answers every request and the event loop runs every task that is ready.
FairSpecReaders ==
    /\ SpecReaders
    /\ \A c \in ReaderTasks : WF_vars(ReadAnswer(c))
    /\ \A c \in OpTasks :
           WF_vars(ResumeOp(c) \/ Check(c) \/ List(c)
                   \/ (\E ok \in BOOLEAN : Put(c, ok))
                   \/ (\E ok \in BOOLEAN : Delete(c, ok)))

\* ------------------------------------------------------------------------
\* is_dir and is_file of a path that a listing yielded, and SpecListing

\* path.stat.st_mode & DIR_MODE is truthy
StatSaysDir(p) == BitAnd(p.stat.st_mode, DIR_MODE) /= 0

\* path.stat.st_mode & REG_MODE is truthy
StatSaysFile(p) == BitAnd(p.stat.st_mode, REG_MODE) /= 0

\* What _is_dir and _is_file do with an S3Path: they answer "True" or
\* "False" with no request, or they send the "HEAD".
ListedAnswer(kind, p) ==
    CASE kind = "is_dir"  -> IF StatSaysDir(p) THEN "True"
                             ELSE IF p.path = Root THEN "True" ELSE "HEAD"
      [] kind = "is_file" -> IF StatSaysFile(p) THEN "True"
                             ELSE IF p.path = Root THEN "False" ELSE "HEAD"

\* is_dir or is_file is called with the i-th path of the task's last listing
ReadBeginListed(c, kind, i) ==
    /\ pc[c] = "idle"
    /\ op[c].kind = "none"
    /\ i \in DOMAIN listed[c]
    /\ op' = IF ListedAnswer(kind, listed[c][i]) = "HEAD"
             THEN [op EXCEPT ![c] = [kind |-> kind, path |-> listed[c][i].path,
                                     at |-> kind, seen |-> {}, todo |-> <<>>]]
             ELSE op
    /\ UNCHANGED <<lockVars, s3Vars, sess, listed, signing>>

\* the objects that the bucket can hold at the start: a file of the root
\* and a file under a/, with no marker
InitialKeys == {<<98>>, <<97, S3_DIR_SUFFIX, 99>>}

InitListing ==
    /\ locks = [p \in Paths |-> LockInit]
    /\ pc = [c \in Callers |-> "idle"]
    /\ plan = [c \in Callers |-> <<>>]
    /\ pos = [c \in Callers |-> 0]
    /\ ahead = [c \in Callers |-> {}]
    /\ bucket \in SUBSET InitialKeys
    /\ stored = {}
    /\ listed = [c \in Callers |-> <<>>]
    /\ signing = NoSigning
    /\ op = [c \in Callers |-> NoOp]
    /\ sess = [c \in Callers |-> NoSession]

\* SpecListing: NumOps tasks make the directories a and a/b, and NumReaders
\* tasks list the root and a, and ask is_dir and is_file of what was listed.
NextListing ==
    \/ \E c \in OpTasks :
           \/ \E path \in MutatedTargets : Begin(c, "mkdir", path)
           \/ ResumeOp(c)
           \/ Check(c)
           \/ \E ok \in BOOLEAN : Put(c, ok)
    \/ \E c \in ReaderTasks :
           \/ \E path \in ReadTargets : ReadBegin(c, "list", path)
           \/ ReadAnswer(c)
           \/ \E kind \in {"is_dir", "is_file"}, i \in 1..MaxListed :
                  ReadBeginListed(c, kind, i)

SpecListing == InitListing /\ [][NextListing]_vars

\* ------------------------------------------------------------------------
\* The write session of _open_wb

MULTIPART_UPLOAD_MIN_BYTES == 1024 * 1024 * 25

MULTIPART_UPLOAD_MAX_CONCURRENT_UPLOADS_PER_FILE == 3

\* str(n) of a natural number: its decimal digits
RECURSIVE str(_)
str(n) == IF n < 10 THEN <<48 + n>> ELSE str(n \div 10) \o <<48 + (n % 10)>>

\* new_part_init
\* mutant: the list of chunks is emptied in place, so the list that
\* upload_part just gave to the part upload is emptied with it
NewPartInitInPlace(s) ==
    [s EXCEPT !.part_length = 0, !.part_chunks = <<>>,
              !.part_uploads = IF @ = <<>> THEN @
                               ELSE [@ EXCEPT ![Len(@)].part_chunks = <<>>]]

\* new_part_init: part_chunks is a new list; the list given to a part upload
\* stays as it is
new_part_init(s) == [s EXCEPT !.part_length = 0, !.part_chunks = <<>>]

\* mutant: the part is numbered by the chunks accepted so far
UploadPartNumberedByChunks(s) ==
    new_part_init(
        [s EXCEPT !.part_uploads =
            Append(@, [part_number |-> str(s.accepted),
                       part_length |-> s.part_length,
                       part_chunks |-> s.part_chunks,
                       body |-> <<>>,
                       state |-> "running"])])

\* upload_part: a task that uploads the chunks collected so far is created.
\* Its state is "running" until S3 answered ("done": the task returns
\* (part_number, part_etag); "failed": raise_for_status raised) or it was
\* cancelled.
upload_part(s) ==
    new_part_init(
        [s EXCEPT !.part_uploads =
            Append(@, [part_number |-> str(Len(s.part_uploads) + 1),
                       part_length |-> s.part_length,
                       part_chunks |-> s.part_chunks,
                       body |-> <<>>,
                       state |-> "running"])])

\* write, the test of its first line: more than two parts were started and
\* part_uploads[-2] is not done
Backpressure(s) ==
    /\ Len(s.part_uploads) > 2
    /\ s.part_uploads[Len(s.part_uploads) - 1].state = "running"

\* the uploads that are not done
in_progress(s) == {i \in DOMAIN s.part_uploads : s.part_uploads[i].state = "running"}

\* mutant: the part is uploaded once it has more than the minimum size
WriteChunkAboveMin(s, n) ==
    Only({IF s1.part_length > MULTIPART_UPLOAD_MIN_BYTES THEN upload_part(s1) ELSE s1
          : s1 \in {[s EXCEPT !.accepted = @ + 1,
                              !.part_length = @ + n,
                              !.part_chunks = Append(@, s.accepted + 1),
                              !.lens = Append(@, n)]}})

\* write after the test of its first lines: the chunk of n bytes is added to
\* the part, and the part is uploaded once it has the minimum size.  A chunk
\* is named by its place among the chunks accepted.
write_chunk(s, n) ==
    Only({IF s1.part_length >= MULTIPART_UPLOAD_MIN_BYTES THEN upload_part(s1) ELSE s1
          : s1 \in {[s EXCEPT !.accepted = @ + 1,
                              !.part_length = @ + n,
                              !.part_chunks = Append(@, s.accepted + 1),
                              !.lens = Append(@, n)]}})

\* mutant: end() without the write(b'') of a session that started no part
EndWithoutEmptyWrite(s) ==
    Only({[s2 EXCEPT !.at = "gather"]
          : s2 \in {IF s.part_chunks /= <<>> THEN upload_part(s) ELSE s}})

\* end up to await asyncio.gather
end(s) ==
    Only({Only({[s2 EXCEPT !.at = "gather"]
                : s2 \in {IF s1.part_chunks /= <<>> THEN upload_part(s1) ELSE s1}})
          : s1 \in {IF s.part_uploads = <<>> THEN write_chunk(s, 0) ELSE s}})

\* mutant: __aexit__ calls end() whatever the exit of the body
AexitAlwaysEnds(s, raised) == [end(s) EXCEPT !.exc = raised]

\* WritableFile.__aexit__: end() if the body raised no exception; otherwise
\* the exception goes on and the upload is abandoned
__aexit__(s, raised) ==
    IF ~raised THEN end(s) ELSE [s EXCEPT !.at = "over", !.exc = TRUE]

\* the parts that finished, whatever the outcome
Finished(part_uploads) == {i \in DOMAIN part_uploads : part_uploads[i].state /= "running"}

\* the result of the task of a part: (part_number, part_etag); the ETag S3
\* answers stands for the content it received
PartResult(part) == <<part.part_number, part.part_chunks>>

\* mutant: the wait ends with the first part that finishes and gives the
\* results in hand
GatherFirstCompleted(part_uploads) ==
    [ready |-> Finished(part_uploads) /= {},
     raised |-> \E i \in DOMAIN part_uploads : part_uploads[i].state \in {"failed", "cancelled"},
     results |-> [i \in 1..Cardinality(Finished(part_uploads)) |->
                     PartResult(part_uploads[
                         Only({j \in Finished(part_uploads) :
                               Cardinality({k \in Finished(part_uploads) : k < j}) = i - 1})])]]

\* mutant: end() goes on without waiting for the part uploads
GatherWithoutWaiting(part_uploads) ==
    [ready |-> TRUE,
     raised |-> \E i \in DOMAIN part_uploads : part_uploads[i].state \in {"failed", "cancelled"},
     results |-> [i \in DOMAIN part_uploads |-> PartResult(part_uploads[i])]]

\* asyncio.gather(*part_uploads): raises as soon as one task raised, returns
\* once every task returned, their results in the order of part_uploads
gather(part_uploads) ==
    [ready |-> \/ \E i \in DOMAIN part_uploads : part_uploads[i].state \in {"failed", "cancelled"}
               \/ \A i \in DOMAIN part_uploads : part_uploads[i].state = "done",
     raised |-> \E i \in DOMAIN part_uploads : part_uploads[i].state \in {"failed", "cancelled"},
     results |-> [i \in DOMAIN part_uploads |-> PartResult(part_uploads[i])]]

\* ------------------------------------------------------------------------
\* SpecUpload: NumUploads tasks each run one write session of at most
\* MaxWrites write() calls, with chunks of no bytes, half a part and a full
\* part, to a path in a directory; the part uploads finish in any order, well
\* or not; the other tasks run the operations of the facade on that
\* directory, so that it is there or not, or a file.

Uploaders == 1..NumUploads

UploadTargets == {<<(<<97>>), (<<98>>)>>}

HelperTargets == {parent(p) : p \in UploadTargets} \ {Root}

ChunkLens == {0, MULTIPART_UPLOAD_MIN_BYTES \div 2, MULTIPART_UPLOAD_MIN_BYTES}

\* async with open(path, 'wb'): __aenter__, start() up to the request of
\* _multipart_upload_start
Open(c, path) ==
    /\ pc[c] = "idle"
    /\ op[c].kind = "none"
    /\ sess[c].at = "none"
    /\ sess' = [sess EXCEPT ![c] = [new_part_init(NoSession) EXCEPT
                                        !.at = "start", !.path = path]]
    /\ UNCHANGED <<lockVars, s3Vars, op, listed, signing>>

\* _multipart_upload_start is answered: the body of the scope begins, or
\* __aenter__ raises
Started(c, ok) ==
    /\ sess[c].at = "start"
    /\ sess' = [sess EXCEPT ![c] = IF ok THEN [@ EXCEPT !.at = "body"]
                                         ELSE [@ EXCEPT !.at = "over", !.exc = TRUE]]
    /\ UNCHANGED <<lockVars, s3Vars, op, listed, signing>>

\* the body calls write(chunk) with a chunk of n bytes
Write(c, n) ==
    /\ sess[c].at = "body"
    /\ sess[c].accepted < MaxWrites
    /\ sess' = [sess EXCEPT ![c] = IF Backpressure(@)
                                    THEN [@ EXCEPT !.at = "sleep", !.chunk = n]
                                    ELSE write_chunk(@, n)]
    /\ UNCHANGED <<lockVars, s3Vars, op, listed, signing>>

\* mutant: write raises when the uploads in progress are at the limit
SleptFailsAtLimit(c) ==
    /\ sess[c].at = "sleep"
    /\ sess' = [sess EXCEPT ![c] =
                   IF Cardinality(in_progress(@)) >=
                          MULTIPART_UPLOAD_MAX_CONCURRENT_UPLOADS_PER_FILE
                   THEN __aexit__(@, TRUE)
                   ELSE [write_chunk(@, @.chunk) EXCEPT !.at = "body", !.chunk = 0]]
    /\ UNCHANGED <<lockVars, s3Vars, op, listed, signing>>

\* write resumes from asyncio.sleep: it raises, and the body with it, or it
\* takes the chunk
Slept(c) ==
    /\ sess[c].at = "sleep"
    /\ sess' = [sess EXCEPT ![c] =
                   IF Cardinality(in_progress(@)) >
                          MULTIPART_UPLOAD_MAX_CONCURRENT_UPLOADS_PER_FILE
                   THEN __aexit__(@, TRUE)
                   ELSE [write_chunk(@, @.chunk) EXCEPT !.at = "body", !.chunk = 0]]
    /\ UNCHANGED <<lockVars, s3Vars, op, listed, signing>>

\* the body raises, or the task is cancelled while it waits in start(), in
\* the body or in the sleep of write
Abort(c) ==
    /\ sess[c].at \in {"start", "body", "sleep"}
    /\ sess' = [sess EXCEPT ![c] = IF @.at = "start"
                                    THEN [@ EXCEPT !.at = "over", !.exc = TRUE]
                                    ELSE __aexit__(@, TRUE)]
    /\ UNCHANGED <<lockVars, s3Vars, op, listed, signing>>

\* the body ends without an exception
BodyEnd(c) ==
    /\ sess[c].at = "body"
    /\ sess' = [sess EXCEPT ![c] = __aexit__(@, FALSE)]
    /\ UNCHANGED <<lockVars, s3Vars, op, listed, signing>>

\* _multipart_upload_part: the Content-Length header of the PUT of a part
ContentLength(part) == str(part.part_length)

\* _multipart_upload_part: aiter gives the next chunk of the part's list to
\* the request
PartRead(c, i) ==
    /\ i \in DOMAIN sess[c].part_uploads
    /\ sess[c].part_uploads[i].state = "running"
    /\ Len(sess[c].part_uploads[i].body) < Len(sess[c].part_uploads[i].part_chunks)
    /\ sess' = [sess EXCEPT ![c].part_uploads[i].body =
                    Append(@, sess[c].part_uploads[i].part_chunks[Len(@) + 1])]
    /\ UNCHANGED <<lockVars, s3Vars, op, listed, signing>>

\* _multipart_upload_part: the request takes the chunks of the list that
\* are left, and the PUT of part i is answered
PartDone(c, i, ok) ==
    /\ i \in DOMAIN sess[c].part_uploads
    /\ sess[c].part_uploads[i].state = "running"
    /\ sess' = [sess EXCEPT ![c].part_uploads[i].state = IF ok THEN "done" ELSE "failed",
                            ![c].part_uploads[i].body =
                                @ \o SubSeq(sess[c].part_uploads[i].part_chunks, Len(@) + 1,
                                            Len(sess[c].part_uploads[i].part_chunks))]
    /\ UNCHANGED <<lockVars, s3Vars, op, listed, signing>>

\* the task is cancelled in await asyncio.gather: gather cancels the tasks
\* of the parts and end() raises
CancelGather(c) ==
    /\ sess[c].at = "gather"
    /\ sess' = [sess EXCEPT ![c] =
                   [@ EXCEPT !.at = "over",
                             !.part_uploads =
                                 [i \in DOMAIN @ |->
                                     IF @[i].state = "running"
                                     THEN [@[i] EXCEPT !.state = "cancelled"]
                                     ELSE @[i]]]]
    /\ UNCHANGED <<lockVars, s3Vars, op, listed, signing>>

\* end() resumes from await asyncio.gather: it raises, or it goes on to
\* async with lock(write_to=[path], read_from=[])
Gather(c) ==
    /\ sess[c].at = "gather"
    /\ \E g \in {gather(sess[c].part_uploads)} :
           /\ g.ready
           /\ IF g.raised
              THEN /\ sess' = [sess EXCEPT ![c].at = "over"]
                   /\ UNCHANGED <<lockVars, op>>
              ELSE /\ \E pl \in {OpLocks(sess[c].path)} :
                      \E res \in {EnterLocks(locks, c, pl, 1)} :
                          ScopeEntered(c, pl, [kind |-> "wb", path |-> sess[c].path,
                                               at |-> FirstStage("wb", sess[c].path),
                                               seen |-> {}, todo |-> <<>>], res)
                   /\ sess' = [sess EXCEPT ![c].at = "end",
                                           ![c].indexes_and_etags = g.results]
                   /\ UNCHANGED ahead
    /\ UNCHANGED <<s3Vars, listed, signing>>

NextUpload ==
    \/ \E c \in Uploaders :
           \/ \E path \in UploadTargets : Open(c, path)
           \/ \E ok \in BOOLEAN : Started(c, ok)
           \/ \E n \in ChunkLens : Write(c, n)
           \/ Slept(c)
           \/ Abort(c)
           \/ BodyEnd(c)
           \/ \E i \in 1..(MaxWrites + 1), ok \in BOOLEAN : PartDone(c, i, ok)
           \/ CancelGather(c)
           \/ Gather(c)
    \/ \E c \in OpTasks \ Uploaders :
           \/ \E kind \in {"mkdir", "rmdir", "unlink", "wb"}, path \in HelperTargets :
                  Begin(c, kind, path)
           \/ \E ok \in BOOLEAN : Put(c, ok)
           \/ List(c)
           \/ \E ok \in BOOLEAN : Delete(c, ok)
    \/ \E c \in OpTasks :
           \/ ResumeOp(c)
           \/ Check(c)
           \/ \E ok \in BOOLEAN : Complete(c, ok)

SpecUpload == InitLock /\ [][NextUpload]_vars

\* ------------------------------------------------------------------------
\* SpecWriters: NumWriters tasks each run one write session of at most one
\* write() call to one and the same path, in a directory that is there from
\* the start.

Writers == 1..NumWriters

SharedTarget == <<(<<97>>), (<<98>>)>>

InitWriters ==
    /\ locks = [p \in Paths |-> LockInit]
    /\ pc = [c \in Callers |-> "idle"]
    /\ plan = [c \in Callers |-> <<>>]
    /\ pos = [c \in Callers |-> 0]
    /\ ahead = [c \in Callers |-> {}]
    /\ bucket = {DirKey(parent(SharedTarget))}
    /\ stored = {}
    /\ listed = [c \in Callers |-> <<>>]
    /\ signing = NoSigning
    /\ op = [c \in Callers |-> NoOp]
    /\ sess = [c \in Callers |-> NoSession]

\* the body calls write(chunk), once at most
WriteOnce(c, n) == sess[c].accepted = 0 /\ Write(c, n)

NextWriters ==
    \E c \in Writers :
        \/ Open(c, SharedTarget)
        \/ \E ok \in BOOLEAN : Started(c, ok)
        \/ \E n \in ChunkLens : WriteOnce(c, n)
        \/ Abort(c)
        \/ BodyEnd(c)
        \/ \E i \in {1}, ok \in BOOLEAN : PartDone(c, i, ok)
        \/ CancelGather(c)
        \/ Gather(c)
        \/ ResumeOp(c)
        \/ Check(c)
        \/ \E ok \in BOOLEAN : Complete(c, ok)

SpecWriters == InitWriters /\ [][NextWriters]_vars

\* ------------------------------------------------------------------------
\* SpecSplit: one write session that is given at most one byte more than
\* the minimum size of a part, in at most MaxWrites write() calls.  No more
\* than two parts are started before end(), so write never sleeps, and the
\* only task never waits for a lock.

SplitLens == {0, 1, MULTIPART_UPLOAD_MIN_BYTES \div 2, MULTIPART_UPLOAD_MIN_BYTES \div 2 + 1,
              MULTIPART_UPLOAD_MIN_BYTES, MULTIPART_UPLOAD_MIN_BYTES + 1}

\* the bytes of the parts started
RECURSIVE PartsLength(_)
PartsLength(part_uploads) ==
    IF part_uploads = <<>> THEN 0
    ELSE part_uploads[1].part_length + PartsLength(Tail(part_uploads))

\* the bytes that the write() calls of a session were given
Received(s) == PartsLength(s.part_uploads) + s.part_length

WriteWithin(c, n) ==
    /\ Received(sess[c]) + n <= MULTIPART_UPLOAD_MIN_BYTES + 1
    /\ Write(c, n)

NextSplit ==
    \E c \in Uploaders :
        \/ Open(c, SharedTarget)
        \/ \E ok \in BOOLEAN : Started(c, ok)
        \/ \E n \in SplitLens : WriteWithin(c, n)
        \/ Abort(c)
        \/ BodyEnd(c)
        \/ \E i \in {1, 2}, ok \in BOOLEAN : PartDone(c, i, ok)
        \/ CancelGather(c)
        \/ Gather(c)
        \/ Check(c)
        \/ \E ok \in BOOLEAN : Complete(c, ok)

SpecSplit == InitWriters /\ [][NextSplit]_vars

\* ------------------------------------------------------------------------
\* SpecBody: one write session of at most MaxWrites write() calls, in which
\* the requests of the part uploads take their chunks one at a time while the
\* body goes on writing.

NextBody ==
    \E c \in Uploaders :
        \/ Open(c, SharedTarget)
        \/ \E ok \in BOOLEAN : Started(c, ok)
        \/ \E n \in ChunkLens : Write(c, n)
        \/ Slept(c)
        \/ Abort(c)
        \/ BodyEnd(c)
        \/ \E i \in 1..(MaxWrites + 1) : PartRead(c, i)
        \/ \E i \in 1..(MaxWrites + 1), ok \in BOOLEAN : PartDone(c, i, ok)
        \/ CancelGather(c)
        \/ Gather(c)
        \/ Check(c)
        \/ \E ok \in BOOLEAN : Complete(c, ok)

SpecBody == InitWriters /\ [][NextBody]_vars

\* ------------------------------------------------------------------------
\* _aws_sig_v4_headers: the canonical query string of the request that is
\* signed.  A query is a dict: a sequence of <<key, value>> with distinct
\* keys, in the order of insertion.

\* urllib.parse.quote: the characters that are never quoted
ALWAYS_SAFE == (48..57) \cup (65..90) \cup (97..122) \cup {95, 46, 45, 126}

\* the upper-case hexadecimal digit of d
Hex(d) == IF d < 10 THEN 48 + d ELSE 55 + d

\* urllib.parse.quote(text, safe=safe): every character that is neither
\* always safe nor in safe becomes '%' and its two hexadecimal digits
RECURSIVE quote(_, _)
quote(text, safe) ==
    IF text = <<>> THEN <<>>
    ELSE (IF Head(text) \in ALWAYS_SAFE \cup safe
          THEN <<Head(text)>>
          ELSE <<37, Hex(Head(text) \div 16), Hex(Head(text) % 16)>>)
         \o quote(Tail(text), safe)

\* (key, value) < (key, value) in Python: by the keys, then by the values
TupleLess(a, b) == StrLess(a[1], b[1]) \/ (a[1] = b[1] /\ StrLess(a[2], b[2]))

\* sorted() so far, with the next pair put after the pairs that are not
\* greater than it
RECURSIVE SortedInsert(_, _)
SortedInsert(pairs, x) ==
    IF pairs = <<>> THEN <<x>>
    ELSE IF TupleLess(x, pairs[Len(pairs)])
         THEN Append(SortedInsert(SubSeq(pairs, 1, Len(pairs) - 1), x), pairs[Len(pairs)])
         ELSE Append(pairs, x)

\* mutant: the pairs are left in the order of the query
Unsorted(pairs) == pairs

\* sorted(pairs): the pairs in ascending order, equal pairs in their order
RECURSIVE sorted(_)
sorted(pairs) ==
    IF pairs = <<>> THEN <<>>
    ELSE SortedInsert(sorted(SubSeq(pairs, 1, Len(pairs) - 1)), pairs[Len(pairs)])

\* canonical_request: quoted_query
quoted_query(query) ==
    sorted([i \in DOMAIN query |-> <<quote(query[i][1], {126}), quote(query[i][2], {126})>>])

\* '&'.join(f'{key}={value}' for key, value in pairs)
RECURSIVE JoinPairs(_)
JoinPairs(pairs) ==
    IF pairs = <<>> THEN <<>>
    ELSE IF Len(pairs) = 1 THEN pairs[1][1] \o <<61>> \o pairs[1][2]
    ELSE pairs[1][1] \o <<61>> \o pairs[1][2] \o <<38>> \o JoinPairs(Tail(pairs))

\* canonical_request: canonical_querystring
canonical_querystring(query) == JoinPairs(quoted_query(query))

\* the keys and the values of the queries: "a", "{", "a/", " " and "", "b",
\* "/"
QueryKeys == {<<97>>, <<123>>, <<97, 47>>, <<32>>}

QueryValues == {<<>>, <<98>>, <<47>>}

\* the queries of at most MaxQuery parameters, in every order of insertion
Queries ==
    UNION {{q \in [1..n -> QueryKeys \X QueryValues] :
                \A i, j \in 1..n : i /= j => q[i][1] /= q[j][1]}
           : n \in 0..MaxQuery}

InitSign ==
    /\ locks = [p \in Paths |-> LockInit]
    /\ pc = [c \in Callers |-> "idle"]
    /\ plan = [c \in Callers |-> <<>>]
    /\ pos = [c \in Callers |-> 0]
    /\ ahead = [c \in Callers |-> {}]
    /\ bucket = {}
    /\ stored = {}
    /\ listed = [c \in Callers |-> <<>>]
    /\ op = [c \in Callers |-> NoOp]
    /\ sess = [c \in Callers |-> NoSession]
    /\ \E query \in Queries : signing = [NoSigning EXCEPT !.query = query]

\* _aws_sig_v4_headers: the canonical query string of the request is made
Sign ==
    /\ ~signing.signed
    /\ signing' = [signing EXCEPT !.signed = TRUE,
                                  !.canonical_querystring = canonical_querystring(signing.query)]
    /\ UNCHANGED <<lockVars, s3Vars, op, sess, listed>>

NextSign == Sign

SpecSign == InitSign /\ [][NextSign]_vars

\* C2: reader-writer exclusion.  At most one writer is inside its critical
\* section, no reader is inside together with a writer, and _write_held
\* implies _reads_held = 0, whatever acquisitions, releases and cancellations
\* happened.
C2_RWExclusion ==
    /\ Cardinality(Inside("write")) <= 1
    /\ Inside("write") /= {} => Inside("read") = {}
    /\ locks[Root].write_held => locks[Root].reads_held = 0
    /\ Inside("write") /= {} => locks[Root].write_held
    /\ Cardinality(Inside("read")) <= locks[Root].reads_held

\* C2 witness: a writer is inside while a live reader and a cancelled waiter
\* are queued behind it
C2_Witness ==
    /\ Inside("write") /= {}
    /\ \E i, j \in DOMAIN locks[Root].waiters :
           /\ locks[Root].waiters[i].cancelled
           /\ ~locks[Root].waiters[j].cancelled
           /\ locks[Root].waiters[j].type = "read"

\* the tasks granted the lock by the step
GrantedByStep ==
    {j \in Acquirers : pc[j] \in {"idle", "waiting"} /\ pc'[j] \in {"granted", "scope"}}

\* the index of the live waiter of task j in q, or Len(q) + 1 when j has yet to queue
QueueIndex(q, j) ==
    IF \E i \in DOMAIN q : q[i].id = j /\ ~q[i].cancelled
    THEN CHOOSE i \in DOMAIN q : q[i].id = j /\ ~q[i].cancelled
    ELSE Len(q) + 1

\* a step grants the lock to a task only together with every live waiter
\* queued before it
FifoStep ==
    LET q == locks[Root].waiters
    IN  \A j \in GrantedByStep :
            \A i \in DOMAIN q :
                (i < QueueIndex(q, j) /\ ~q[i].cancelled) => q[i].id \in GrantedByStep

\* a task that was granted the lock has no earlier conflicting acquirer that
\* still waits for or holds it
AfterEarlier == \A c \in Acquirers : pc[c] \in {"granted", "scope"} => ahead[c] = {}

\* C3: FIFO fairness.  Live waiters are granted in the order they queued (a
\* reader behind a waiting writer is not granted before it, nor a writer before
\* earlier readers), and an acquirer is granted only after every earlier-queued
\* conflicting acquirer has released.
C3_Fifo == []AfterEarlier /\ [][FifoStep]_vars

\* C3 witness: a reader is inside, a writer waits, and a reader that queued
\* after the writer waits behind it
C3_Witness ==
    /\ Inside("read") /= {}
    /\ Len(locks[Root].waiters) >= 2
    /\ locks[Root].waiters[1].type = "write" /\ ~locks[Root].waiters[1].cancelled
    /\ locks[Root].waiters[2].type = "read" /\ ~locks[Root].waiters[2].cancelled

\* C4: no starvation.  With every holder leaving its scope, every waiter that
\* is not cancelled is eventually granted.
C4_NoStarvation ==
    \A c \in Acquirers : (pc[c] = "waiting") ~> (pc[c] /= "waiting")

\* the caller's locks are in strictly ascending (number of ancestors, path) order
PlanSorted ==
    \A c \in LockCallers :
        \A i, j \in DOMAIN plan[c] :
            i < j => \/ Len(plan[c][i].path) < Len(plan[c][j].path)
                     \/ /\ Len(plan[c][i].path) = Len(plan[c][j].path)
                        /\ StrLess(as_posix(plan[c][i].path), as_posix(plan[c][j].path))

\* task j has entered entry i of its plan and not left it
Entered(j, i) ==
    \/ pc[j] = "scope"
    \/ pc[j] \in {"waiting", "granted"} /\ i < pos[j]
    \/ pc[j] = "granted" /\ i = pos[j]

\* the tasks that the waiting task c waits for: the holders of the lock it is
\* queued on and the waiters queued before it
WaitsFor(c) ==
    LET p == plan[c][pos[c]].path
        q == locks[p].waiters
    IN  {j \in LockCallers \ {c} :
            \/ \E i \in DOMAIN plan[j] : plan[j][i].path = p /\ Entered(j, i)
            \/ \E i, k \in DOMAIN q : i < k /\ q[i].id = j /\ q[k].id = c}

\* no set of waiting callers in which each waits for another one of the set
NoWaitCycle ==
    \A S \in (SUBSET {c \in LockCallers : pc[c] = "waiting"}) \ {{}} :
        \E c \in S : WaitsFor(c) \cap S = {}

\* C5: deadlock freedom of multi-path locking.  Every lock() call takes its
\* locks in ascending (number of ancestors, path string) order, no callers wait
\* on each other in a cycle, and with every caller leaving its scope every
\* caller eventually enters its scope.
C5_DeadlockFree ==
    /\ []PlanSorted
    /\ []NoWaitCycle
    /\ \A c \in LockCallers : (pc[c] = "waiting") ~> (pc[c] = "scope")

\* C5 witness: a caller that holds two of its locks waits for a third one
\* while another caller is in its scope
C5_Witness ==
    \E c, d \in LockCallers :
        /\ pc[c] = "waiting" /\ pos[c] = 3
        /\ pc[d] = "scope" /\ Len(plan[d]) >= 3

\* the task is in the critical section of a facade operation: it holds its
\* locks and has a check or a mutating request under way
InCritical(c) == pc[c] = "scope" /\ op[c].kind /= "none"

\* two paths are equal or one is an ancestor of the other
Related(p, q) == p = q \/ p \in parents(q) \/ q \in parents(p)

\* C1: mutual exclusion of mutations on a path tree.  The critical sections
\* (precondition checks and PUT / DELETE / CompleteMultipartUpload requests) of
\* two operations whose target paths are equal or ancestor and descendant never
\* overlap.
C1_MutualExclusion ==
    \A c, d \in OpTasks :
        (c /= d /\ InCritical(c) /\ InCritical(d)) => ~Related(op[c].path, op[d].path)

\* C1 witness: an rmdir is deleting keys while an operation on a descendant
\* of its path waits for a lock
C1_Witness ==
    \E c, d \in OpTasks :
        /\ InCritical(c) /\ op[c].kind = "rmdir" /\ op[c].at = "delete"
        /\ pc[d] = "waiting" /\ op[c].path \in parents(op[d].path)

\* what task c found by its checks still holds while it is in its lock scope
ChecksStillHold(c) ==
    /\ \A f \in op[c].seen : (f[1] \in bucket) = f[2]
    /\ op[c].at = "put" =>
           Key(op[c].path) \notin bucket /\ DirKey(op[c].path) \notin bucket
    /\ (op[c].at = "list" /\ op[c].path /= Root) =>
           Key(op[c].path) \notin bucket /\ DirKey(op[c].path) \in bucket
    /\ (op[c].kind = "rmdir" /\ op[c].at = "delete") =>
           /\ Key(op[c].path) \notin bucket
           /\ _list_descendant_keys(bucket, DirKey(op[c].path)) = Elems(op[c].todo)
    /\ (op[c].kind = "unlink" /\ op[c].at = "delete") =>
           Key(op[c].path) \in bucket /\ DirKey(op[c].path) \notin bucket
    /\ (op[c].at = "complete" /\ parent(op[c].path) /= Root) =>
           /\ Key(parent(op[c].path)) \notin bucket
           /\ DirKey(parent(op[c].path)) \in bucket

\* C10: check-then-act atomicity.  Between the precondition check of mkdir,
\* rmdir, unlink and upload completion and their mutating requests nothing
\* changes what was checked: a mkdir about to PUT still has neither the file nor
\* the marker (so of two mkdir of a path one fails), an upload about to complete
\* still has its parent's marker, an rmdir deletes exactly the keys it listed.
C10_CheckThenAct == \A c \in OpTasks : InCritical(c) => ChecksStillHold(c)

\* C10 witness: an upload is about to complete in a directory while an rmdir
\* of that directory waits
C10_Witness ==
    \E c, d \in OpTasks :
        /\ InCritical(c) /\ op[c].kind = "wb" /\ op[c].at = "complete"
        /\ parent(op[c].path) /= Root
        /\ op[d].kind = "rmdir" /\ op[d].path = parent(op[c].path) /\ pc[d] = "waiting"

\* the parent check of end() passed for task c: the parent of the path is the
\* root, or the HEAD requests found no file and the marker of the parent, and
\* that is still so
ParentCheckPassed(c) ==
    \/ parent(op[c].path) = Root
    \/ /\ <<Key(parent(op[c].path)), FALSE>> \in op[c].seen
       /\ <<DirKey(parent(op[c].path)), TRUE>> \in op[c].seen
       /\ Key(parent(op[c].path)) \notin bucket
       /\ DirKey(parent(op[c].path)) \in bucket

\* a step that sends CompleteMultipartUpload for the session of task c starts
\* where the body exited without exception, every part upload succeeded and
\* the parent check passed
SentOnlyAfterNormalExit(c) ==
    sess'[c].sent /= sess[c].sent =>
        /\ ~sess[c].exc
        /\ sess[c].part_uploads /= <<>>
        /\ \A i \in DOMAIN sess[c].part_uploads : sess[c].part_uploads[i].state = "done"
        /\ op[c].kind = "wb" /\ op[c].path = sess[c].path /\ ParentCheckPassed(c)

\* no CompleteMultipartUpload was sent for a session whose scope got an
\* exception or that has a part upload that failed or was cancelled
NothingSentIfAbnormal(c) ==
    (\/ sess[c].exc
     \/ \E i \in DOMAIN sess[c].part_uploads :
            sess[c].part_uploads[i].state \in {"failed", "cancelled"})
    => sess[c].sent = <<>>

\* C6: no completion on abnormal exit.  A write session sends
\* CompleteMultipartUpload only if the body exited without an exception, every
\* started part upload succeeded and the parent check passed; if the body
\* raises (the backpressure failure of write included), if the scope is
\* cancelled or if a part upload fails, no CompleteMultipartUpload is ever sent
\* for the upload.
C6_NoCompletionOnAbnormalExit ==
    /\ [](\A c \in Uploaders : NothingSentIfAbnormal(c))
    /\ [][\A c \in Uploaders : SentOnlyAfterNormalExit(c)]_vars

\* C6 witness: a session is over whose body raised after all of its parts, at
\* least two, were uploaded well, and nothing was sent
C6_Witness ==
    \E c \in Uploaders :
        /\ sess[c].at = "over" /\ sess[c].exc
        /\ Len(sess[c].part_uploads) >= 2
        /\ \A i \in DOMAIN sess[c].part_uploads : sess[c].part_uploads[i].state = "done"
        /\ sess[c].sent = <<>>

\* C7: completion waits for and orders all parts.  Every
\* CompleteMultipartUpload sent lists exactly the started parts of the session,
\* once each, all of them finished, in ascending part number equal to the order
\* in which they were started, whatever the order in which they finished.
C7_CompleteListsAllParts ==
    \A c \in Uploaders :
        \A k \in DOMAIN sess[c].sent :
            /\ Len(sess[c].sent[k]) = Len(sess[c].part_uploads)
            /\ \A i \in DOMAIN sess[c].part_uploads :
                   /\ sess[c].part_uploads[i].state = "done"
                   /\ sess[c].sent[k][i] = PartResult(sess[c].part_uploads[i])
                   /\ sess[c].sent[k][i][1] = str(i)

\* C7 witness: a CompleteMultipartUpload was sent for a session of four parts
C7_Witness ==
    \E c \in Uploaders :
        sess[c].sent /= <<>> /\ Len(sess[c].part_uploads) >= 4

\* the chunks of the parts started, part after part, and then the chunks of
\* the part being collected
RECURSIVE ChunksOfParts(_)
ChunksOfParts(part_uploads) ==
    IF part_uploads = <<>> THEN <<>>
    ELSE ChunksOfParts(SubSeq(part_uploads, 1, Len(part_uploads) - 1))
             \o part_uploads[Len(part_uploads)].part_chunks

\* C8: part numbering.  The k-th part upload started in a session has part
\* number k, so no number is skipped or given twice, and the parts hold the
\* chunks in the order write() accepted them.
C8_PartNumbering ==
    \A c \in Uploaders :
        /\ \A k \in DOMAIN sess[c].part_uploads :
               sess[c].part_uploads[k].part_number = str(k)
        /\ \A j, k \in DOMAIN sess[c].part_uploads :
               j /= k => sess[c].part_uploads[j].part_number /= sess[c].part_uploads[k].part_number
        /\ ChunksOfParts(sess[c].part_uploads) \o sess[c].part_chunks
               = [n \in 1..sess[c].accepted |-> n]

\* C8 witness: three parts were started, one of them with two chunks
C8_Witness ==
    \E c \in Uploaders :
        /\ Len(sess[c].part_uploads) >= 3
        /\ \E k \in DOMAIN sess[c].part_uploads : Len(sess[c].part_uploads[k].part_chunks) = 2

\* C9: bounded concurrency per file.  The part uploads of a session that are
\* started and not finished are never more than
\* MULTIPART_UPLOAD_MAX_CONCURRENT_UPLOADS_PER_FILE.
C9_BoundedInFlight ==
    \A c \in Uploaders :
        Cardinality(in_progress(sess[c])) <= MULTIPART_UPLOAD_MAX_CONCURRENT_UPLOADS_PER_FILE

\* the ids of the waiters queued at the lock of a path
Queued(p) == {locks[p].waiters[i].id : i \in DOMAIN locks[p].waiters}

\* Task c has no claim on any lock unless its session is in end() after the
\* gather, with every part upload done; its claim is then the write lock of
\* the path of the session and read locks of other paths.
LateLocking(c) ==
    /\ sess[c].at /= "end" =>
           /\ pc[c] = "idle" /\ plan[c] = <<>> /\ op[c].kind = "none"
           /\ \A p \in Paths : c \notin Queued(p)
    /\ sess[c].at = "end" =>
           /\ \A i \in DOMAIN sess[c].part_uploads : sess[c].part_uploads[i].state = "done"
           /\ op[c].kind = "wb" /\ op[c].path = sess[c].path
           /\ \A i \in DOMAIN plan[c] :
                  (plan[c][i].type = "write") = (plan[c][i].path = sess[c].path)

\* the CompleteMultipartUpload request of task c is under way
Completing(c) == pc[c] = "scope" /\ op[c].at = "complete"

\* A step that answers the CompleteMultipartUpload of task c finds no other
\* completion under way; it makes the object of the path that of c, or it
\* fails and changes nothing.  No other step of a session changes an object.
LaterCommitRemains ==
    /\ \A c \in Writers :
           sess'[c].sent /= sess[c].sent =>
               /\ \A d \in Writers \ {c} : ~Completing(d)
               /\ \/ {e \in stored' : e[1] = Key(sess[c].path)} = {<<Key(sess[c].path), c>>}
                  \/ UNCHANGED s3Vars
    /\ stored' /= stored => \E c \in Writers : sess'[c].sent /= sess[c].sent

\* C11: late locking of uploads.  A write session has no claim on a path lock
\* during start(), write() and while its part uploads are in flight; it asks
\* for the write lock of its path only when all its part uploads have finished
\* and holds it around the parent check and CompleteMultipartUpload only.  Two
\* sessions on one path never have their completions under way together, and
\* the object that remains is that of the session whose completion came later.
C11_LateLocking ==
    /\ [](\A c \in Writers : LateLocking(c))
    /\ [](\A c, d \in Writers : (c /= d /\ InCritical(c)) => ~InCritical(d))
    /\ [][LaterCommitRemains]_vars

\* C11 witness: the completion of one session is under way while the other
\* session on the same path has a part upload in flight
C11_Witness ==
    \E c, d \in Writers :
        /\ c /= d /\ Completing(c) /\ sess[c].path = sess[d].path
        /\ \E i \in DOMAIN sess[d].part_uploads : sess[d].part_uploads[i].state = "running"

\* C12: no global stall.  An operation waits for a lock only while another
\* operation is under way whose target is its own or an ancestor or a
\* descendant of it: operations on unrelated paths, such as two children of one
\* directory, never wait for each other, however long one of them holds its
\* write lock.
C12_NoGlobalStall ==
    \A c \in OpTasks :
        pc[c] = "waiting" =>
            \E d \in OpTasks \ {c} : pc[d] /= "idle" /\ Related(op[c].path, op[d].path)

\* C12 witness: operations on two children of one directory are in their
\* critical sections together, each with its mutating request under way
C12_Witness ==
    \E c, d \in OpTasks :
        /\ InCritical(c) /\ InCritical(d)
        /\ op[c].path /= op[d].path /\ ~Related(op[c].path, op[d].path)
        /\ parent(op[c].path) = parent(op[d].path)
        /\ op[c].at \in {"put", "delete", "complete"}
        /\ op[d].at \in {"put", "delete", "complete"}

\* a step in which a read-only operation of task c begins, goes on or ends
ReadStep(c) == op'[c] /= op[c]

\* C13: read-only operations are lock-free.  A task that runs exists, is_dir,
\* is_file, stat, list or a read has no claim on any path lock and its steps
\* change no lock; its request can be answered whatever locks are held or
\* waited for, so that it completes, and so does every rmdir or mkdir that
\* runs beside it.
C13_ReadsLockFree ==
    /\ [](\A c \in ReaderTasks :
             /\ pc[c] = "idle" /\ plan[c] = <<>>
             /\ \A p \in Paths : c \notin Queued(p)
             /\ op[c].kind \in ReadKinds => ENABLED ReadAnswer(c))
    /\ [][\A c \in ReaderTasks : ReadStep(c) => UNCHANGED lockVars]_vars
    /\ \A c \in ReaderTasks : (op[c].kind \in ReadKinds) ~> (op[c].kind = "none")
    /\ \A c \in OpTasks : (op[c].kind /= "none") ~> (op[c].kind = "none")

\* C13 witness: a list of a directory is under way while an rmdir of the
\* directory waits for a lock that an operation on a child holds
C13_Witness ==
    \E c \in ReaderTasks, d, e \in OpTasks :
        /\ op[c].kind = "list" /\ op[c].path /= Root
        /\ op[d].kind = "rmdir" /\ op[d].path = op[c].path /\ pc[d] = "waiting"
        /\ InCritical(e) /\ op[d].path \in parents(op[e].path)

\* the precondition of mkdir, rmdir and unlink of a path below the root
Precondition(kind, path) ==
    CASE kind = "mkdir"  -> Key(path) \notin bucket /\ DirKey(path) \notin bucket
      [] kind = "rmdir"  -> Key(path) \notin bucket /\ DirKey(path) \in bucket
      [] kind = "unlink" -> Key(path) \in bucket /\ DirKey(path) \notin bucket

\* the entries of the plans of the tasks other than c that hold the lock of
\* path p with type t
HeldByOthers(c, p, t) ==
    {e \in UNION {{j} \X DOMAIN plan[j] : j \in OpTasks \ {c}} :
        /\ plan[e[1]][e[2]].path = p /\ plan[e[1]][e[2]].type = t
        /\ Entered(e[1], e[2])}

\* the check of mkdir, rmdir or unlink of task c fails in this step
FailsCheck(c) ==
    /\ op[c].kind \in {"mkdir", "rmdir", "unlink"}
    /\ op[c].at \in {"is_file", "is_dir"}
    /\ op'[c].kind = "none"

\* after the step task c has no claim on any lock and the locks are held by
\* the other tasks only
AllReleased(c) ==
    /\ pc'[c] = "idle" /\ plan'[c] = <<>>
    /\ \A p \in Paths :
           /\ \A i \in DOMAIN locks'[p].waiters : locks'[p].waiters[i].id /= c
           /\ locks'[p].reads_held = Cardinality(HeldByOthers(c, p, "read"))'
           /\ locks'[p].write_held = (HeldByOthers(c, p, "write")' /= {})

\* C14: precondition failure changes nothing.  mkdir, rmdir and unlink send a
\* PUT, a listing or a DELETE only when their precondition holds; when it does
\* not, the check raises, the bucket is as before, and every lock the operation
\* acquired is released.
C14_FailureChangesNothing ==
    /\ [](\A c \in OpTasks :
             (InCritical(c) /\ op[c].path /= Root
                 /\ op[c].kind \in {"mkdir", "rmdir", "unlink"}
                 /\ (op[c].at \in {"put", "list"}
                         \/ (op[c].at = "delete" /\ op[c].kind = "unlink")))
             => Precondition(op[c].kind, op[c].path))
    /\ [][\A c \in OpTasks :
             /\ FailsCheck(c) => (~Precondition(op[c].kind, op[c].path)
                                     /\ UNCHANGED s3Vars /\ AllReleased(c))
             /\ (InCritical(c) /\ op[c].kind \in {"mkdir", "rmdir", "unlink"}
                     /\ op[c].at \in {"is_file", "is_dir"}
                     /\ op'[c] /= op[c]
                     /\ \/ op[c].at = "is_file" /\ op[c].kind /= "unlink" /\ Key(op[c].path) \in bucket
                        \/ op[c].at = "is_dir" /\ op[c].kind /= "rmdir" /\ DirKey(op[c].path) \in bucket
                        \/ op[c].at = "is_file" /\ op[c].kind = "unlink" /\ Key(op[c].path) \notin bucket
                        \/ op[c].at = "is_dir" /\ op[c].kind = "rmdir" /\ DirKey(op[c].path) \notin bucket)
                => FailsCheck(c)]_vars

\* C14 witness: an unlink of a path that is no file has passed its directory
\* check and is about to fail, while another operation waits for its lock
C14_Witness ==
    \E c, d \in OpTasks :
        /\ InCritical(c) /\ op[c].kind = "unlink" /\ op[c].at = "is_file"
        /\ Key(op[c].path) \notin bucket /\ op[c].seen /= {}
        /\ pc[d] = "waiting" /\ op[d].path = op[c].path

\* ------------------------------------------------------------------------
\* the file type of a mode: stat.S_IFMT(mode), with stat.S_IFDIR = 0o040000
\* and stat.S_IFREG = 0o100000
S_IFMT == 15 * 4096

S_IFDIR == 4 * 4096

S_IFREG == 8 * 4096

HasType(mode, type) == BitAnd(mode, S_IFMT) = type

\* C15: for a path that a listing yielded, is_dir answers true by its Stat
\* only if the mode has the directory type and is_file answers true by its
\* Stat only if the mode has the regular-file type; a path listed with the
\* mode of files is not answered "directory" by its Stat, and a path listed
\* with the mode of directories is not answered "file".
C15_StatShortCircuitByType ==
    \A c \in ReaderTasks : \A i \in DOMAIN listed[c] :
        /\ StatSaysDir(listed[c][i]) => HasType(listed[c][i].stat.st_mode, S_IFDIR)
        /\ StatSaysFile(listed[c][i]) => HasType(listed[c][i].stat.st_mode, S_IFREG)
        /\ listed[c][i].stat.st_mode = REG_MODE => ~StatSaysDir(listed[c][i])
        /\ listed[c][i].stat.st_mode = DIR_MODE => ~StatSaysFile(listed[c][i])

\* the paths that a listing is to yield for the answer body of S3: the files
\* with the mode 0o100666 ...
FilesToYield(body) ==
    {[path |-> PurePosixPath(body.Contents[i].Key),
      stat |-> [st_size |-> int(body.Contents[i].Size),
                st_mtime |-> body.Contents[i].LastModified.seconds,
                st_ctime |-> body.Contents[i].LastModified.seconds,
                st_nlink |-> 1,
                st_mode |-> S_IFREG + 438]] :
        i \in {i \in DOMAIN body.Contents :
                  body.Contents[i].Key[Len(body.Contents[i].Key)] /= S3_DIR_SUFFIX}}

\* ... and the directories with the mode 0o040777
DirsToYield(body) ==
    {[path |-> PurePosixPath(SubSeq(body.CommonPrefixes[i], 1,
                                    Len(body.CommonPrefixes[i]) - 1)),
      stat |-> [st_size |-> 0, st_mtime |-> 0, st_ctime |-> 0, st_nlink |-> 1,
                st_mode |-> S_IFDIR + 511]] :
        i \in DOMAIN body.CommonPrefixes}

\* task c 's list() gets the answer of S3 and returns
ListReturns(c) == op[c].kind = "list" /\ op'[c] = NoOp

\* C18: list(path) yields exactly one path for each listed Contents key that
\* does not end in '/', with the mode 0o100666, the listed size, mtime =
\* ctime = the listed LastModified and nlink 1, and exactly one path for each
\* CommonPrefix without its last '/', with the mode 0o040777, size 0, mtime =
\* ctime = 0 and nlink 1; the listed directory itself is not yielded; when
\* the only key under the listed directory is the marker of a child, the
\* listing yields exactly that child as a directory with mtime 0.
C18_ListingMaterialization ==
    [][\A c \in ReaderTasks :
          ListReturns(c) =>
              /\ \E body \in ListResponses(bucket, ListPrefixOf(op[c].path)) :
                     /\ Elems(listed'[c]) = FilesToYield(body) \cup DirsToYield(body)
                     /\ Len(listed'[c]) = Cardinality(FilesToYield(body))
                                          + Cardinality(DirsToYield(body))
              /\ \A i \in DOMAIN listed'[c] : listed'[c][i].path /= op[c].path
              /\ \A p \in Paths \ {Root} :
                     (/\ parent(p) = op[c].path
                      /\ {k \in bucket : StartsWith(k, ListPrefixOf(op[c].path))}
                             \ {DirKey(op[c].path)} = {DirKey(p)})
                     => listed'[c] = <<[path |-> p,
                                        stat |-> [st_size |-> 0, st_mtime |-> 0,
                                                  st_ctime |-> 0, st_nlink |-> 1,
                                                  st_mode |-> S_IFDIR + 511]]>>
      ]_vars

\* the body of task c 's write session ends with no exception
ExitsNormally(c) == sess[c].at = "body" /\ sess'[c].at = "gather"

\* C16: every completion request sent lists at least one part; a write
\* session that exits normally having started no part starts exactly one part
\* in end(), made of all the bytes written, so of length 0 when no byte was
\* written.
C16_AtLeastOnePart ==
    /\ [](\A c \in Uploaders : \A i \in DOMAIN sess[c].sent : sess[c].sent[i] /= <<>>)
    /\ [][\A c \in Uploaders :
              (ExitsNormally(c) /\ sess[c].part_uploads = <<>>)
              => /\ Len(sess'[c].part_uploads) = 1
                 /\ sess'[c].part_uploads[1].part_length = sess[c].part_length
                 /\ sess'[c].part_uploads[1].state = "running"
       ]_vars

\* a session that wrote nothing has sent its completion, with one part of
\* length 0
C16_Witness ==
    \E c \in Uploaders :
        /\ sess[c].sent /= <<>>
        /\ sess[c].accepted = 1
        /\ Len(sess[c].part_uploads) = 1
        /\ sess[c].part_uploads[1].part_length = 0

\* the body of the session ended with no exception
ExitedNormally(s) == s.at \in {"gather", "end"} \/ s.sent /= <<>>

\* the session was given 25 MiB + 1 bytes and exited normally
GivenOneMore(s) ==
    ExitedNormally(s) /\ Received(s) = MULTIPART_UPLOAD_MIN_BYTES + 1

\* C17 as stated: a write session that is given 25 MiB + 1 bytes and exits
\* normally starts exactly 2 part uploads, and its completion lists
\* [(1, etag1), (2, etag2)], however the bytes are divided into write calls.
C17_AlwaysTwoParts ==
    \A c \in Uploaders :
        GivenOneMore(sess[c])
        => /\ Len(sess[c].part_uploads) = 2
           /\ \A k \in DOMAIN sess[c].sent :
                  sess[c].sent[k] = <<<<str(1), sess[c].part_uploads[1].part_chunks>>,
                                      <<str(2), sess[c].part_uploads[2].part_chunks>>>>

\* task c 's write() takes a chunk
TakesChunk(c) ==
    /\ sess[c].at \in {"body", "sleep"}
    /\ sess'[c].at = "body"
    /\ sess'[c].accepted = sess[c].accepted + 1

\* C17, amended: a write starts a part exactly when the bytes collected,
\* the chunk included, are 25 MiB or more, all of them going to the part.  So
\* a session that is given 25 MiB + 1 bytes and exits normally starts 2 parts
\* if a write call follows the one that reaches 25 MiB, and otherwise 1 part
\* of all the bytes (a single write of all the bytes among them); its
\* completion lists the parts started, (1, etag1) or (1, etag1), (2, etag2).
C17_ThresholdSplit ==
    /\ [][\A c \in Uploaders :
              TakesChunk(c)
              => /\ Len(sess'[c].part_uploads) \in {Len(sess[c].part_uploads),
                                                   Len(sess[c].part_uploads) + 1}
                 /\ (Len(sess'[c].part_uploads) = Len(sess[c].part_uploads) + 1)
                        <=> (sess[c].part_length + Received(sess'[c]) - Received(sess[c])
                                >= MULTIPART_UPLOAD_MIN_BYTES)
                 /\ (Len(sess'[c].part_uploads) = Len(sess[c].part_uploads) + 1)
                        => sess'[c].part_length = 0
       ]_vars
    /\ [](\A c \in Uploaders :
              GivenOneMore(sess[c])
              => /\ Len(sess[c].part_uploads) \in {1, 2}
                 /\ sess[c].part_uploads[1].part_length >= MULTIPART_UPLOAD_MIN_BYTES
                 /\ (Len(sess[c].part_uploads) = 1)
                        <=> (Len(sess[c].part_uploads[1].part_chunks) = sess[c].accepted)
                 /\ \A k \in DOMAIN sess[c].sent :
                        sess[c].sent[k] = [i \in DOMAIN sess[c].part_uploads |->
                                             <<str(i), sess[c].part_uploads[i].part_chunks>>])

\* a session that was given 25 MiB + 1 bytes in a single write has sent its
\* completion, with one part
C17_Witness ==
    \E c \in Uploaders :
        /\ sess[c].sent /= <<>>
        /\ sess[c].accepted = 1
        /\ Len(sess[c].part_uploads) = 1
        /\ sess[c].part_uploads[1].part_length = MULTIPART_UPLOAD_MIN_BYTES + 1

\* the holds of type t on the lock of path p whose release is still to run:
\* the entries that a task entered before the one it is at, and the one it is
\* at if it was granted and not cancelled
Holders(p, t) ==
    {cj \in UNION {{c} \X DOMAIN plan[c] : c \in Callers} :
        /\ plan[cj[1]][cj[2]] = [path |-> p, type |-> t]
        /\ \/ cj[2] < pos[cj[1]]
           \/ cj[2] = pos[cj[1]] /\ pc[cj[1]] \in {"granted", "scope"}}

\* the tasks cancelled in await waiter for a hold of type t on p that have
\* not resumed yet: a grant they got is still to be given back
CancelledAt(p, t) ==
    {c \in Callers : /\ pc[c] = "cancelling"
                      /\ plan[c][pos[c]] = [path |-> p, type |-> t]}

\* C19: the bookkeeping of each lock matches its holders.  _reads_held is
\* the number of read holds whose release is still to run and _write_held is
\* true iff there is one such write hold, a grant to a task that was
\* cancelled before it resumed being given back when it resumes; so with
\* every acquirer out or cancelled the lock is free.
C19_BookkeepingMatchesHolders ==
    \A p \in Paths :
        /\ locks[p].reads_held >= Cardinality(Holders(p, "read"))
        /\ locks[p].reads_held <= Cardinality(Holders(p, "read"))
                                      + Cardinality(CancelledAt(p, "read"))
        /\ Cardinality(Holders(p, "write")) <= 1
        /\ Holders(p, "write") /= {} => locks[p].write_held
        /\ locks[p].write_held => \/ Holders(p, "write") /= {}
                                  \/ CancelledAt(p, "write") /= {}

\* the lock as it would be had its cancelled waiters never been queued
WithoutCancelled(lock) ==
    [lock EXCEPT !.waiters = SelectSeq(@, LAMBDA w : ~w.cancelled)]

\* two outcomes of _resolve_queued_waiters grant the same tasks and leave the
\* same counters and the same waiters that are not cancelled
SameOutcome(r1, r2) ==
    /\ r1.granted = r2.granted
    /\ WithoutCancelled(r1.lock) = WithoutCancelled(r2.lock)

\* whatever happens next at the lock (the dequeue rule is run, a holder
\* releases, a waiter queues), the outcome is that of the lock without its
\* cancelled waiters
CancelledAreTransparent(lock) ==
    /\ SameOutcome(_resolve_queued_waiters(lock),
                   _resolve_queued_waiters(WithoutCancelled(lock)))
    /\ \A t \in {"read", "write"} :
           (IF t = "read" THEN lock.reads_held > 0 ELSE lock.write_held)
           => SameOutcome(_resolve_queued_waiters(_on_release(lock, t)),
                          _resolve_queued_waiters(_on_release(WithoutCancelled(lock), t)))
    /\ \A t \in {"read", "write"}, c \in Acquirers :
           SameOutcome(_resolve_queued_waiters(
                           [lock EXCEPT !.waiters = Append(@, Waiter(c, t))]),
                       _resolve_queued_waiters(
                           [WithoutCancelled(lock) EXCEPT !.waiters = Append(@, Waiter(c, t))]))

\* task c, cancelled in await waiter, resumes in the except clause of _acquire
CancelHandled(c) == pc[c] = "cancelling" /\ pc'[c] = "idle"

\* nothing is left to grant at the lock: running the dequeue rule again
\* grants nobody
Settled(lock) == _resolve_queued_waiters(lock).granted = {}

\* C20: a cancelled queued waiter never blocks its successors.  A cancelled
\* waiter is never granted; at the lock, whatever happens next has the
\* outcome it would have had the cancelled waiters never been queued: same
\* tasks granted, same counters, same waiters left; and when the cancelled
\* task resumes the dequeue rule is re-run: nothing is left to grant, so with
\* readers holding the lock and the queue [cancelled writer, reader] the
\* reader is granted then.
C20_CancelledWaiterNeverBlocks ==
    /\ [](\A p \in Paths : CancelledAreTransparent(locks[p]))
    /\ [][\A c \in Acquirers :
              /\ pc[c] = "cancelling" => pc'[c] \in {"cancelling", "idle"}
              /\ CancelHandled(c)
                 => /\ Settled(locks'[plan[c][pos[c]].path])
                    /\ \A j \in Acquirers :
                           (/\ locks[Root].reads_held > 0
                            /\ Len(locks[Root].waiters) = 2
                            /\ locks[Root].waiters[1] = [id |-> c, type |-> "write",
                                                         cancelled |-> TRUE]
                            /\ locks[Root].waiters[2] = [id |-> j, type |-> "read",
                                                         cancelled |-> FALSE])
                           => /\ pc'[j] = "granted"
                              /\ locks'[Root].reads_held = locks[Root].reads_held + 1
                              /\ locks'[Root].waiters = <<>>
       ]_vars

\* readers hold the lock and the queue is [cancelled writer, reader], the
\* writer's task not having resumed yet
C20_Witness ==
    \E c, j \in Acquirers :
        /\ pc[c] = "cancelling"
        /\ pc[j] = "waiting"
        /\ locks[Root].reads_held > 0
        /\ locks[Root].waiters = <<[id |-> c, type |-> "write", cancelled |-> TRUE],
                                   [id |-> j, type |-> "read", cancelled |-> FALSE]>>

\* the paths that a plan requests with type t
Requested(pl, t) == {pl[i].path : i \in {i \in DOMAIN pl : pl[i].type = t}}

\* the proper ancestors of a path, up to the root
Ancestors(path) == {q \in Paths : Len(q) < Len(path) /\ SubSeq(path, 1, Len(q)) = q}

\* pl is the expansion of lock(write_to, read_from): the write lock of
\* every path to write, and a read lock of every path to read and of every
\* ancestor of both, less the paths to write
ExpansionOf(pl, write_to, read_from) ==
    /\ Requested(pl, "write") = Elems(write_to)
    /\ Requested(pl, "read") =
           (Elems(read_from)
            \cup UNION {Ancestors(q) : q \in Elems(write_to) \cup Elems(read_from)})
           \ Elems(write_to)

IsExpansion(pl) ==
    \E write_to, read_from \in PathLists : ExpansionOf(pl, write_to, read_from)

\* the callers inside their scope whose plan requests path p with type t
ScopeHolders(p, t) ==
    {c \in LockCallers : pc[c] = "scope" /\ p \in Requested(plan[c], t)}

\* C21: lock expansion.  A call requests the write lock of every path of
\* write_to and a read lock of every path of (ancestors of write_to and
\* read_from, plus read_from) minus write_to, no path twice or in both modes;
\* inside its scope it holds them all, so every ancestor of a written path up
\* to the root is read-locked, or write-locked by this call, for the whole
\* scope.
C21_LockExpansion ==
    /\ \A write_to, read_from \in PathLists :
           ExpansionOf(sorted_locks(write_to, read_from), write_to, read_from)
    /\ \A c \in LockCallers :
        /\ plan[c] /= <<>> =>
               /\ IsExpansion(plan[c])
               /\ \A i, j \in DOMAIN plan[c] : i /= j => plan[c][i].path /= plan[c][j].path
               /\ \A p \in Requested(plan[c], "write") :
                      Ancestors(p) \subseteq Requested(plan[c], "read")
                                               \cup Requested(plan[c], "write")
        /\ pc[c] = "scope" =>
               /\ \A p \in Requested(plan[c], "write") :
                      /\ locks[p].write_held
                      /\ locks[p].reads_held = 0
                      /\ ScopeHolders(p, "write") = {c}
               /\ \A p \in Requested(plan[c], "read") :
                      /\ ~locks[p].write_held
                      /\ locks[p].reads_held >= Cardinality(ScopeHolders(p, "read"))

\* a caller is inside the scope of lock(write_to=[a/b], read_from=[a/c])
C21_Witness ==
    \E c \in LockCallers :
        /\ pc[c] = "scope"
        /\ Requested(plan[c], "write") = {<<(<<97>>), (<<98>>)>>}
        /\ Requested(plan[c], "read") = {Root, <<(<<97>>)>>, <<(<<97>>), (<<99>>)>>}

\* task c leaves its call of lock(): cancelled while it waited in it, or
\* at the end of its scope
LeavesCall(c) == pc[c] \in {"cancelling", "scope"} /\ pc'[c] = "idle"

\* task c has a waiter in the queue of the lock that is not cancelled
LiveWaiter(c, lock) ==
    \E i \in DOMAIN lock.waiters : lock.waiters[i].id = c /\ ~lock.waiters[i].cancelled

\* the counters of the lock of p are those of the holds whose release is
\* still to run, a grant to a cancelled task that has not resumed counting
\* or not
HeldMatches(p) ==
    /\ locks[p].reads_held >= Cardinality(Holders(p, "read"))
    /\ locks[p].reads_held <= Cardinality(Holders(p, "read"))
                                  + Cardinality(CancelledAt(p, "read"))
    /\ locks[p].write_held <=> \/ Holders(p, "write") /= {}
                               \/ /\ CancelledAt(p, "write") /= {}
                                  /\ locks[p].write_held

\* C22: all-or-nothing acquisition of the locks of a call.  When a caller
\* leaves lock(), cancelled while it waited for its k-th lock or at the end of
\* its scope, it is a live waiter in no queue and holds none of its locks: the
\* counters of every lock are those of the other callers' holds; and the
\* waiters at its locks were re-evaluated: nothing is left to grant there.
C22_AllOrNothing ==
    [][\A c \in LockCallers :
          LeavesCall(c) =>
              /\ plan'[c] = <<>>
              /\ \A p \in Paths :
                     /\ ~LiveWaiter(c, locks'[p])
                     /\ HeldMatches(p)'
              /\ \A i \in DOMAIN plan[c] :
                     i <= pos[c] => Settled(locks'[plan[c][i].path])
      ]_vars

\* the parts of the session that were started and are not finished
Unfinished(s) == {i \in DOMAIN s.part_uploads : s.part_uploads[i].state = "running"}

\* the gate applies: more than 2 parts were started and the one started
\* before the last is not finished
GateApplies(s) ==
    /\ Len(s.part_uploads) > 2
    /\ (Len(s.part_uploads) - 1) \in Unfinished(s)

\* the body of task c calls write(chunk): the call sleeps or takes the chunk
WriteCalled(c) ==
    /\ sess[c].at = "body"
    /\ \/ sess'[c].at = "sleep"
       \/ sess'[c].at = "body" /\ sess'[c].accepted = sess[c].accepted + 1

\* the chunk is accepted: it is one more chunk of the session, in the part
\* being collected or in a part started with it
ChunkAccepted(c) ==
    /\ sess'[c].accepted = sess[c].accepted + 1
    /\ ChunksOfParts(sess'[c].part_uploads) \o sess'[c].part_chunks
           = Append(ChunksOfParts(sess[c].part_uploads) \o sess[c].part_chunks,
                    sess[c].accepted + 1)

\* C23: the backpressure gate.  write(chunk) sleeps exactly when more than
\* 2 parts were started and the second-most-recently started one is not
\* finished; after the sleep it fails iff more than 3 started parts are not
\* finished; on failure the chunk is not added and no part is started; when
\* the gate does not apply or passes, the chunk is accepted.
C23_BackpressureGate ==
    [][\A c \in Uploaders :
          /\ WriteCalled(c) =>
                 /\ (sess'[c].at = "sleep") <=> GateApplies(sess[c])
                 /\ sess'[c].at = "sleep" =>
                        /\ sess'[c].part_uploads = sess[c].part_uploads
                        /\ sess'[c].part_chunks = sess[c].part_chunks
                        /\ sess'[c].accepted = sess[c].accepted
                 /\ sess'[c].at = "body" => ChunkAccepted(c)
          /\ Slept(c) =>
                 /\ (sess'[c].at = "over" /\ sess'[c].exc)
                        <=> Cardinality(Unfinished(sess[c])) > 3
                 /\ sess'[c].at = "over" =>
                        /\ sess'[c].part_uploads = sess[c].part_uploads
                        /\ sess'[c].part_chunks = sess[c].part_chunks
                        /\ sess'[c].part_length = sess[c].part_length
                        /\ sess'[c].accepted = sess[c].accepted
                 /\ sess'[c].at /= "over" => sess'[c].at = "body" /\ ChunkAccepted(c)
      ]_vars

\* a write sleeps at the gate while four started parts are not finished
C23_Witness ==
    \E c \in Uploaders :
        sess[c].at = "sleep" /\ Cardinality(Unfinished(sess[c])) > 3

\* key m is the marker of a directory that contains key k
MarkerAbove(m, k) ==
    /\ m[Len(m)] = S3_DIR_SUFFIX
    /\ Len(m) < Len(k)
    /\ SubSeq(k, 1, Len(m)) = m

\* task c runs rmdir and has DELETEs to send
Deleting(c) == op[c].kind = "rmdir" /\ op[c].at = "delete"

\* C24: rmdir deletes children before parents.  rmdir(p) sends one DELETE
\* for each key under p/ that its listing gave, one at a time in the order of
\* its list, in which every key comes before the marker of every directory
\* that contains it and the marker p/ comes last; so while it runs, and if it
\* stops at a DELETE that fails, no marker was deleted before a key that the
\* directory contains.
C24_ChildrenBeforeParents ==
    /\ [](\A c \in OpTasks :
              Deleting(c) =>
                  /\ \A i, j \in DOMAIN op[c].todo :
                         i < j => /\ op[c].todo[i] /= op[c].todo[j]
                                  /\ ~MarkerAbove(op[c].todo[i], op[c].todo[j])
                  /\ \A i \in DOMAIN op[c].todo :
                         /\ SubSeq(op[c].todo[i], 1, Len(DirKey(op[c].path))) = DirKey(op[c].path)
                         /\ op[c].todo[i] = DirKey(op[c].path) => i = Len(op[c].todo))
    /\ [][\A c \in OpTasks :
              /\ (op[c].kind = "rmdir" /\ op[c].at = "list" /\ op'[c].at = "delete")
                 => Elems(op'[c].todo) =
                        {k \in bucket : /\ Len(k) >= Len(DirKey(op[c].path))
                                         /\ SubSeq(k, 1, Len(DirKey(op[c].path)))
                                                = DirKey(op[c].path)}
              /\ (Deleting(c) /\ op'[c] /= op[c])
                 => /\ bucket' \in {bucket, bucket \ {op[c].todo[1]}}
                    /\ Deleting(c)' => /\ op'[c].todo = Tail(op[c].todo)
                                        /\ bucket' = bucket \ {op[c].todo[1]}
                    /\ (~Deleting(c)' /\ bucket' /= bucket) => Len(op[c].todo) = 1
       ]_vars

\* rmdir(a) is about to delete the marker of a child directory, then a file
\* of a, then the marker of a
C24_Witness ==
    \E c \in OpTasks :
        /\ Deleting(c)
        /\ Len(op[c].todo) = 3
        /\ MarkerAbove(op[c].todo[3], op[c].todo[1])
        /\ MarkerAbove(op[c].todo[3], op[c].todo[2])
        /\ op[c].todo[1][Len(op[c].todo[1])] = S3_DIR_SUFFIX
        /\ op[c].todo[2][Len(op[c].todo[2])] /= S3_DIR_SUFFIX

\* the chunks that the requests of the part uploads were given, in the order
\* of the part numbers
RECURSIVE BodiesOfParts(_)
BodiesOfParts(part_uploads) ==
    IF part_uploads = <<>> THEN <<>>
    ELSE BodiesOfParts(SubSeq(part_uploads, 1, Len(part_uploads) - 1))
             \o part_uploads[Len(part_uploads)].body

\* the bytes of the chunks, lens giving the length of each chunk written
RECURSIVE ChunksLength(_, _)
ChunksLength(lens, chunks) ==
    IF chunks = <<>> THEN 0
    ELSE lens[Head(chunks)] + ChunksLength(lens, Tail(chunks))

\* C25: upload data integrity.  Each write() call of a session gives one
\* chunk; every chunk is in exactly one part or in the part being gathered, in
\* call order; the request of a part is given the chunks of that part in
\* order, all of them once it has succeeded, also while later chunks are being
\* written; the Content-Length of a part is the sum of the lengths of its
\* chunks; and when the completion is sent the bodies of the parts in
\* part-number order are all the chunks written in call order.
C25_UploadDataIntegrity ==
    \A c \in Uploaders :
        /\ Len(sess[c].lens) = sess[c].accepted
        /\ ChunksOfParts(sess[c].part_uploads) \o sess[c].part_chunks
               = [n \in 1..Len(sess[c].lens) |-> n]
        /\ \A k \in DOMAIN sess[c].part_uploads :
               /\ Len(sess[c].part_uploads[k].body) <= Len(sess[c].part_uploads[k].part_chunks)
               /\ sess[c].part_uploads[k].body
                      = SubSeq(sess[c].part_uploads[k].part_chunks, 1,
                               Len(sess[c].part_uploads[k].body))
               /\ sess[c].part_uploads[k].state = "done"
                      => sess[c].part_uploads[k].body = sess[c].part_uploads[k].part_chunks
               /\ int(ContentLength(sess[c].part_uploads[k]))
                      = ChunksLength(sess[c].lens, sess[c].part_uploads[k].part_chunks)
        /\ sess[c].sent /= <<>>
               => BodiesOfParts(sess[c].part_uploads) = [n \in 1..Len(sess[c].lens) |-> n]

\* C25 witness: the session exited normally with two parts; the request of
\* the first part, of two chunks with bytes, has read one of them, and the
\* chunks of the second part were written meanwhile
C25_Witness ==
    \E c \in Uploaders :
        /\ sess[c].at = "gather"
        /\ Len(sess[c].part_uploads) = 2
        /\ sess[c].part_uploads[1].state = "running"
        /\ Len(sess[c].part_uploads[1].part_chunks) = 2
        /\ Len(sess[c].part_uploads[1].body) = 1
        /\ sess[c].part_uploads[1].part_length = MULTIPART_UPLOAD_MIN_BYTES
        /\ sess[c].part_uploads[2].part_length > 0

\* C26: file/directory exclusivity.  Starting from the empty bucket, no path
\* is at once a file and a directory: the bucket never holds both the object
\* p and the marker p/.
C26_FileDirExclusive ==
    \A p \in Paths : ~(_file_exists(bucket, p) /\ _dir_exists(bucket, p))

\* C27: parent exists.  Starting from the empty bucket, every file object and
\* every directory marker whose parent is not the root has the marker of its
\* parent in the bucket.
C27_ParentExists ==
    \A p \in Paths :
        (parent(p) /= Root /\ (_file_exists(bucket, p) \/ _dir_exists(bucket, p)))
        => _dir_exists(bucket, parent(p))

\* every order in which the parameters of a query can have been inserted
Insertions(query) ==
    {[i \in DOMAIN query |-> query[f[i]]] :
        f \in {g \in [DOMAIN query -> DOMAIN query] :
                   \A i, j \in DOMAIN query : i /= j => g[i] /= g[j]}}

\* the pairs of a query, each key and each value percent-encoded
Encoded(query) ==
    [i \in DOMAIN query |-> <<quote(query[i][1], {126}), quote(query[i][2], {126})>>]

\* C28: canonical query order.  The canonical query string that is signed is
\* the percent-encoded (key, value) pairs of the query, each once, in
\* ascending order of encoded key then encoded value, each as key=value and
\* joined with '&'; it is the same for every order of insertion of the same
\* parameters.
C28_CanonicalQueryOrder ==
    signing.signed
    => /\ \E pairs \in Insertions(Encoded(signing.query)) :
              /\ \A i, j \in DOMAIN pairs : i < j => TupleLess(pairs[i], pairs[j])
              /\ signing.canonical_querystring = JoinPairs(pairs)
       /\ \A query \in Insertions(signing.query) :
              canonical_querystring(query) = signing.canonical_querystring

\* C28 witness: a signed query of three parameters that were not inserted in
\* the canonical order, with a key that is percent-encoded to a text that
\* sorts before a key it follows unencoded
C28_Witness ==
    /\ signing.signed
    /\ Len(signing.query) = 3
    /\ quoted_query(signing.query) /= Encoded(signing.query)
    /\ \E i, j \in DOMAIN signing.query :
           /\ StrLess(signing.query[i][1], signing.query[j][1])
           /\ StrLess(quote(signing.query[j][1], {126}), quote(signing.query[i][1], {126}))

====
